---------------------------- MODULE Spec2Model ----------------------------
(***************************************************************************)
(* A model of the PetShop admin dashboard (React/TypeScript).              *)
(*                                                                         *)
(*  - the stock-receipt dialog of components/Warehouse.tsx (the revision   *)
(*    with the receipt list, lines 294-721) and its landed-cost            *)
(*    calculator;                                                          *)
(*  - the period comparator getDateRanges of components/Dashboard.tsx      *)
(*    (the revision of lines 226-635).                                     *)
(*                                                                         *)
(* Numbers.  A JavaScript number is modelled as the exact rational it      *)
(* denotes, [n |-> numerator, d |-> denominator], normalised (d > 0,       *)
(* gcd 1).  d = 0 stands for the non-finite values: n = 0 is NaN, n = 1    *)
(* is +Infinity, n = -1 is -Infinity.  The rounding IEEE-754 applies to    *)
(* each operation is not modelled: equalities between computed values are  *)
(* equalities of the exact values ("to rounding" in the code).             *)
(*                                                                         *)
(* Strings.  The text of a form input is a sequence of one-character       *)
(* strings; parseInt and parseFloat scan it as JavaScript does.            *)
(*                                                                         *)
(* Dates.  A Date is [day |-> days since 1970-01-01, ms |-> millisecond    *)
(* of the day] in local time; the local time zone has no DST transition.   *)
(***************************************************************************)
EXTENDS Integers, Sequences, FiniteSets, TLC

VARIABLES
    \* App.tsx
    products,            \* App state: the product list
    \* Warehouse.tsx, receipt dialog
    isReceiptModalOpen,  \* the dialog is shown
    receiptSupplier,     \* text of the supplier select ("" = none)
    receiptItems,        \* the receipt list (sequence of ReceiptItem)
    globalExtraCosts,    \* text of the extra-cost input
    receiptProduct,      \* product of the line being entered (NoProduct = null)
    receiveQty,          \* text of the quantity input
    purchasePrice,       \* text of the unit-price input
    addOutcome,          \* history: what the last handler call did, when it
                         \* was handleAddToReceiptList ("added"/"rejected")
    \* Dashboard.tsx
    period,              \* the selected period token
    now,                 \* the value new Date() had when the ranges were computed
    ranges,              \* the memoised result of getDateRanges(period)
    \* OrderDetail (unnamed/part_000): packaging advice
    loadingAdvice,       \* the loading flag of the advice button
    packagingAdvice,     \* the advice text shown ("" = none)
    adviceInFlight,      \* a getShippingAdvice promise is not settled yet
    adviceRequests,      \* history: clicks on the advice button
    adviceCalls,         \* history: generateContent calls made for them
    \* ProductList.tsx: generated descriptions
    isGenerating,        \* the loading flag of the two generate buttons
    description,         \* [ru, uk]: the descriptions of the edited product
    descInFlight,        \* language of the unsettled request ("none" = none)
    descRequests,        \* history: clicks on a generate button
    descCalls,           \* history: generateContent calls made for them
    lastReturn,          \* history: what the last settled operation gave its
                         \* caller, [op, outcome, thrown, value]
    \* OrderDetail (unnamed/part_000): the order editor
    currentOrder,        \* [items, total, shippingCost, ttn]; shippingCost is
                         \* <<>> (undefined) or <<number>>, ttn is "has a TTN"
    savedOrder,          \* the order as App holds it (last onUpdate)
    isFetchingShipping,  \* the loading flag of the shipping-cost fetch
    shippingTimer,       \* pending 1000 ms timers of the fetch
    totalEffectPending,  \* the useEffect on [currentOrder.items] is to run
    \* ProductList.tsx: the import dialog
    isImportModalOpen,
    importStep,          \* 1, 2 or 3
    importFile,          \* a file is selected
    fileHeaders,         \* the headers are loaded
    importTimers,        \* pending 500 ms timers of handleFileSelect
    actor,               \* history: who took the last step of these two
                         \* components: "user", "effect" or "timer"
    \* Settings.tsx
    settings,            \* the form's copy, [bankCommission]
    appSettings,         \* App state, [bankCommission]
    \* Directories.tsx and the categories of App.tsx
    categories,          \* App state: the list of [id, parentId]
    isModalOpen,         \* the edit dialog of the Directories view is open
    editingItem,         \* the category in the dialog; id 0 when it is new
    \* the receipts of App.tsx
    warehouseReceipts,   \* the list of [id, supplierId, totalAmount, isPaid,
                         \* itemsCount, items], the newest first
    clock,               \* the last value Date.now() gave
    \* App.tsx: a list of records by id, for the update and delete handlers
    collection,          \* which of App's lists `records` is
    records,             \* the list, of [id, data]; of [id, isPaid] for
                         \* the receipts
    lastOp,              \* history: the handler applied last, its argument
                         \* and the list before it
    \* ProductList.tsx: the reviewed rows of an import
    diffItems,           \* the list of [type, newProduct, selected] of step 3
    \* ProductList.tsx: the product dialog
    editingProduct,      \* the draft of the dialog, [id, name_ru, name_uk];
                         \* its two descriptions are `description`
    isProductModalOpen,  \* the product dialog is open
    descFor,             \* history: the id of the draft the unsettled
                         \* request was made for
    \* App.tsx: the orders and the navigation
    orders,              \* App state: the list of [id, data], the newest first
    currentView,         \* App state: the view the navigation shows
    selectedOrderId      \* App state: the order of the detail view, 0 for null

warehouseVars == <<products, isReceiptModalOpen, receiptSupplier, receiptItems,
                   globalExtraCosts, receiptProduct, receiveQty, purchasePrice,
                   addOutcome>>
dashboardVars == <<period, now, ranges>>
genVars == <<loadingAdvice, packagingAdvice, adviceInFlight, adviceRequests,
             adviceCalls, isGenerating, description, descInFlight,
             descRequests, descCalls, lastReturn>>
orderVars == <<currentOrder, savedOrder, isFetchingShipping, shippingTimer,
               totalEffectPending>>
importVars == <<isImportModalOpen, importStep, importFile, fileHeaders,
                importTimers>>
settingsVars == <<settings, appSettings>>
directoryVars == <<categories, isModalOpen, editingItem>>
collectionVars == <<collection, records, lastOp>>
diffVars == <<diffItems>>
draftVars == <<editingProduct, isProductModalOpen, descFor>>
appVars == <<orders, currentView, selectedOrderId>>
\* the state outside the Warehouse and the Dashboard views
otherVars == <<genVars, orderVars, importVars, actor, settingsVars,
               directoryVars, warehouseReceipts, clock, collectionVars,
               diffVars, draftVars, appVars>>
\* the state outside the text generation
outsideGen == <<warehouseVars, dashboardVars, orderVars, importVars, actor,
                settingsVars, directoryVars, warehouseReceipts, clock,
                collectionVars, diffVars, draftVars, appVars>>
\* the state outside the order editor and the import dialog
outsideEditors == <<warehouseVars, dashboardVars, genVars, settingsVars,
                    directoryVars, warehouseReceipts, clock, collectionVars,
                    diffVars, draftVars, appVars>>
\* the state outside the settings form
outsideSettings == <<warehouseVars, dashboardVars, genVars, orderVars,
                     importVars, actor, directoryVars, warehouseReceipts,
                     clock, collectionVars, diffVars, draftVars, appVars>>
\* the state outside the categories
outsideDirectories == <<warehouseVars, dashboardVars, genVars, orderVars,
                        importVars, actor, settingsVars, warehouseReceipts,
                        collectionVars, diffVars, draftVars, appVars>>
\* the state outside the Warehouse view and the receipts
outsideReceipts == <<dashboardVars, genVars, orderVars, importVars, actor,
                     settingsVars, directoryVars, collectionVars, diffVars,
                     draftVars, appVars>>
\* the state outside that list
outsideCollections == <<warehouseVars, dashboardVars, genVars, orderVars,
                        importVars, actor, settingsVars, directoryVars,
                        warehouseReceipts, clock, diffVars, draftVars,
                        appVars>>
\* the state the import of products leaves alone
outsideImport == <<isReceiptModalOpen, receiptSupplier, receiptItems,
                   globalExtraCosts, receiptProduct, receiveQty,
                   purchasePrice, addOutcome, dashboardVars, genVars,
                   orderVars, settingsVars, directoryVars, warehouseReceipts,
                   collectionVars, draftVars, appVars>>
\* the state the product dialog and its text generation leave alone
outsideDraft == <<isReceiptModalOpen, receiptSupplier, receiptItems,
                  globalExtraCosts, receiptProduct, receiveQty, purchasePrice,
                  addOutcome, dashboardVars, loadingAdvice, packagingAdvice,
                  adviceInFlight, adviceRequests, adviceCalls, orderVars,
                  importVars, actor, settingsVars, directoryVars,
                  warehouseReceipts, collectionVars, diffVars, appVars>>
\* the state outside the orders, the navigation and the clock
outsideApp == <<warehouseVars, dashboardVars, genVars, orderVars, importVars,
                actor, settingsVars, directoryVars, warehouseReceipts,
                collectionVars, diffVars, draftVars>>
vars == <<products, isReceiptModalOpen, receiptSupplier, receiptItems,
          globalExtraCosts, receiptProduct, receiveQty, purchasePrice,
          addOutcome, period, now, ranges, otherVars>>

---------------------------------------------------------------------------
(* Bounds of the model *)

\* the longest receipt list the model builds
MaxLines == 2
\* the longest list of orders the model builds
MaxOrders == 3
\* the longest list of records the update and delete handlers are given
MaxRecords == 3
\* the largest id of a record in such a list
MaxRecordId == 2

\* the number of consecutive days, from FirstDay on, "now" is drawn from
NumDays == 8

\* the number of text-generation requests of each kind the model makes
MaxRequests == 2

\* the most items the model puts on an order
MaxItems == 2

\* the most timers of handleFileSelect pending at once
MaxTimers == 2

\* the most categories the model holds
MaxCategories == 3

\* the greatest id Date.now() gives in the model
MaxId == 5

\* the most receipts the model holds
MaxReceipts == 2

\* the most receipt batches the model finalizes
MaxFinalized == 1

---------------------------------------------------------------------------
(* JavaScript numbers *)

Abs(a) == IF a < 0 THEN -a ELSE a

Sign(a) == IF a < 0 THEN -1 ELSE IF a > 0 THEN 1 ELSE 0

RECURSIVE GCD(_, _)
GCD(a, b) == IF b = 0 THEN a ELSE GCD(b, a % b)

Norm(n, d) ==
    IF d = 0 THEN [n |-> Sign(n), d |-> 0]
    ELSE LET g == GCD(Abs(n), Abs(d))
         IN  [n |-> (Sign(d) * n) \div g, d |-> Abs(d) \div g]

NaN == [n |-> 0, d |-> 0]
Zero == [n |-> 0, d |-> 1]
IntR(k) == [n |-> k, d |-> 1]

IsNaN(x) == x.d = 0 /\ x.n = 0
IsFinite(x) == x.d # 0

\* x + y
RAdd(x, y) ==
    IF IsNaN(x) \/ IsNaN(y) THEN NaN
    ELSE IF x.d = 0 /\ y.d = 0 THEN (IF x.n = y.n THEN x ELSE NaN)
    ELSE IF x.d = 0 THEN x
    ELSE IF y.d = 0 THEN y
    ELSE LET g == GCD(x.d, y.d)
         IN  Norm(x.n * (y.d \div g) + y.n * (x.d \div g),
                  (x.d \div g) * y.d)

\* x * y
RMul(x, y) ==
    IF IsNaN(x) \/ IsNaN(y) THEN NaN
    ELSE IF x.d = 0 \/ y.d = 0
         THEN [n |-> Sign(x.n) * Sign(y.n), d |-> 0]
    ELSE Norm(x.n * y.n, x.d * y.d)

\* x / y : a finite non-zero x over 0 is an infinity, 0 / 0 is NaN
RDiv(x, y) ==
    IF IsNaN(x) \/ IsNaN(y) THEN NaN
    ELSE IF x.d = 0 /\ y.d = 0 THEN NaN
    ELSE IF x.d = 0 THEN [n |-> x.n * (IF y.n < 0 THEN -1 ELSE 1), d |-> 0]
    ELSE IF y.d = 0 THEN Zero
    ELSE Norm(x.n * y.d, x.d * y.n)

\* x < y : false when either is NaN
RLt(x, y) ==
    /\ ~IsNaN(x)
    /\ ~IsNaN(y)
    /\ IF x.d = 0 /\ y.d = 0 THEN x.n < y.n
       ELSE IF x.d = 0 THEN x.n < 0
       ELSE IF y.d = 0 THEN y.n > 0
       ELSE x.n * y.d < y.n * x.d

RGt(x, y) == RLt(y, x)

\* x <= y : false when either is NaN
RLe(x, y) == ~IsNaN(x) /\ ~IsNaN(y) /\ ~RLt(y, x)

\* the mutant of OrZero that keeps what the parse gave
OrZeroKeepingNaN(x) == x

\* x || 0 : NaN and 0 are falsy
OrZero(x) == IF IsNaN(x) \/ x = Zero THEN Zero ELSE x

RECURSIVE SumTo(_, _)
\* s[1] + ... + s[k], from 0 as reduce(..., 0) does
SumTo(s, k) == IF k = 0 THEN Zero ELSE RAdd(SumTo(s, k - 1), s[k])

Sum(s) == SumTo(s, Len(s))

---------------------------------------------------------------------------
(* Form input text: parseInt, parseFloat, Number.prototype.toString *)

Digits == <<"0", "1", "2", "3", "4", "5", "6", "7", "8", "9">>

IsDigit(c) == \E i \in 1..10 : Digits[i] = c

DigitVal(c) == (CHOOSE i \in 1..10 : Digits[i] = c) - 1

RECURSIVE DigitRun(_, _)
\* the number of digits of s from position i on
DigitRun(s, i) ==
    IF i <= Len(s) /\ IsDigit(s[i]) THEN 1 + DigitRun(s, i + 1) ELSE 0

RECURSIVE DigitsValue(_, _, _)
\* the value of the k digits of s that start at position i
DigitsValue(s, i, k) ==
    IF k = 0 THEN 0
    ELSE 10 * DigitsValue(s, i, k - 1) + DigitVal(s[i + k - 1])

RECURSIVE Pow10(_)
Pow10(k) == IF k = 0 THEN 1 ELSE 10 * Pow10(k - 1)

SignLen(s) == IF Len(s) >= 1 /\ s[1] \in {"-", "+"} THEN 1 ELSE 0

SignOf(s) == IF Len(s) >= 1 /\ s[1] = "-" THEN -1 ELSE 1

\* parseInt(s): an optional sign and the digits that follow; NaN without a digit
ParseInt(s) ==
    LET st == SignLen(s) + 1
        k  == DigitRun(s, st)
    IN  IF k = 0 THEN NaN ELSE IntR(SignOf(s) * DigitsValue(s, st, k))

\* parseFloat(s): an optional sign, digits, an optional "." and digits
ParseFloat(s) ==
    LET st  == SignLen(s) + 1
        k1  == DigitRun(s, st)
        dot == st + k1 <= Len(s) /\ s[st + k1] = "."
        k2  == IF dot THEN DigitRun(s, st + k1 + 1) ELSE 0
    IN  IF k1 = 0 /\ k2 = 0 THEN NaN
        ELSE Norm(SignOf(s) * (DigitsValue(s, st, k1) * Pow10(k2)
                               + DigitsValue(s, st + k1 + 1, k2)),
                  Pow10(k2))

RECURSIVE NatToString(_)
NatToString(k) ==
    IF k < 10 THEN <<Digits[k + 1]>>
    ELSE NatToString(k \div 10) \o <<Digits[(k % 10) + 1]>>

\* x.toString() of a number with at most two decimals (a price)
NumToString(x) ==
    LET cents == Abs(x.n) * (100 \div x.d)
        whole == cents \div 100
        frac  == cents % 100
    IN  (IF x.n < 0 THEN <<"-">> ELSE <<>>)
        \o NatToString(whole)
        \o (IF frac = 0 THEN <<>>
            ELSE IF frac % 10 = 0 THEN <<".", Digits[(frac \div 10) + 1]>>
            ELSE <<".", Digits[(frac \div 10) + 1], Digits[(frac % 10) + 1]>>)

EmptyText == <<>>

---------------------------------------------------------------------------
(* Warehouse.tsx: the receipt dialog *)

\* receiptProduct === null
NoProduct == [id |-> 0, purchasePrice |-> Zero, stock |-> 0]

\* the products the application starts with
InitialProducts ==
    << [id |-> 1, purchasePrice |-> IntR(5), stock |-> 3] >>

\* what the user can type into the quantity, unit-price and extra-cost inputs
QtyInputs == { <<>>, <<"0">>, <<"-", "1">>, <<"5">>, <<"1", "0">> }
PriceInputs == { <<>>, <<"0">>, <<"-", "1">>, <<"5">>, <<"1", "0">> }
ExtraInputs == { <<>>, <<"0">>, <<"3", "0">> }

\* the same inputs, an unparsable and a parsable text of each; ".5" is a text
\* a number input accepts and parseInt does not
FormQtyInputs == { <<>>, <<".", "5">>, <<"5">> }
FormPriceInputs == { <<>>, <<"5">> }
FormExtraInputs == { <<>>, <<"3", "0">> }

\* item.qty * item.supplierUnitPrice
ItemSupplierTotal(item) == RMul(item.qty, item.supplierUnitPrice)

\* receiptItems.reduce((acc, item) => acc + item.qty * item.supplierUnitPrice, 0)
TotalSupplier(items) ==
    Sum([i \in 1..Len(items) |-> ItemSupplierTotal(items[i])])

\* parseFloat(globalExtraCosts) || 0
ExtraCost(text) == OrZero(ParseFloat(text))

\* the mutant of Ratio that divides the unit price, not the line total
RatioOfUnitPrice(item, totalSupplier) ==
    IF RGt(totalSupplier, Zero)
    THEN RDiv(item.supplierUnitPrice, totalSupplier)
    ELSE Zero

\* the mutant of Ratio without the guard against a zero total
RatioUnguarded(item, totalSupplier) ==
    RDiv(ItemSupplierTotal(item), totalSupplier)

\* totalSupplier > 0 ? itemSupplierTotal / totalSupplier : 0
Ratio(item, totalSupplier) ==
    IF RGt(totalSupplier, Zero)
    THEN RDiv(ItemSupplierTotal(item), totalSupplier)
    ELSE Zero

\* extra * ratio
AllocatedExtra(item, totalSupplier, extra) ==
    RMul(extra, Ratio(item, totalSupplier))

\* the mutant of LandedTotal that leaves the allocated extra out
LandedTotalWithoutExtra(item, totalSupplier, extra) ==
    ItemSupplierTotal(item)

\* itemSupplierTotal + allocatedExtra
LandedTotal(item, totalSupplier, extra) ==
    RAdd(ItemSupplierTotal(item), AllocatedExtra(item, totalSupplier, extra))

\* the mutant of LandedUnit that does not divide by the quantity
LandedUnitUndivided(item, totalSupplier, extra) ==
    LandedTotal(item, totalSupplier, extra)

\* item.qty > 0 ? landedTotal / item.qty : 0
LandedUnit(item, totalSupplier, extra) ==
    IF RGt(item.qty, Zero)
    THEN RDiv(LandedTotal(item, totalSupplier, extra), item.qty)
    ELSE Zero

\* the useMemo of calculatedItems, totalSupplierValue and totalLandedValue
Calculator(items, extraText) ==
    LET totalSupplier == TotalSupplier(items)
        extra == ExtraCost(extraText)
        calc == [i \in 1..Len(items) |->
                   [items[i] EXCEPT
                      !.supplierTotalCost = ItemSupplierTotal(items[i]),
                      !.landedUnitCost = LandedUnit(items[i], totalSupplier, extra),
                      !.landedTotalCost = LandedTotal(items[i], totalSupplier, extra)]]
    IN  [calculatedItems |-> calc,
         totalSupplierValue |-> totalSupplier,
         totalLandedValue |->
             Sum([i \in 1..Len(calc) |-> calc[i].landedTotalCost])]

\* handleSelectProduct
SelectProductEffect(p) ==
    /\ receiptProduct' = p
    /\ purchasePrice' = NumToString(p.purchasePrice)

\* handleOpenReceiptModal(preselectedProduct?)
OpenReceiptModal(pre) ==
    /\ ~isReceiptModalOpen
    /\ receiptSupplier' = EmptyText
    /\ receiptItems' = <<>>
    /\ receiveQty' = EmptyText
    /\ globalExtraCosts' = <<"0">>
    /\ IF pre # NoProduct
       THEN SelectProductEffect(pre)
       ELSE receiptProduct' = NoProduct /\ purchasePrice' = EmptyText
    /\ isReceiptModalOpen' = TRUE
    /\ addOutcome' = "none"
    /\ UNCHANGED <<products, dashboardVars, otherVars>>

\* a click on a product suggestion in the dialog
SelectProduct(p) ==
    /\ isReceiptModalOpen
    /\ SelectProductEffect(p)
    /\ addOutcome' = "none"
    /\ UNCHANGED <<products, isReceiptModalOpen, receiptSupplier, receiptItems,
                   globalExtraCosts, receiveQty,
                   dashboardVars, otherVars>>

\* onChange of the quantity input
SetReceiveQty(text) ==
    /\ isReceiptModalOpen
    /\ receiveQty' = text
    /\ addOutcome' = "none"
    /\ UNCHANGED <<products, isReceiptModalOpen, receiptSupplier, receiptItems,
                   globalExtraCosts, receiptProduct, purchasePrice,
                   dashboardVars, otherVars>>

\* onChange of the unit-price input
SetPurchasePrice(text) ==
    /\ isReceiptModalOpen
    /\ purchasePrice' = text
    /\ addOutcome' = "none"
    /\ UNCHANGED <<products, isReceiptModalOpen, receiptSupplier, receiptItems,
                   globalExtraCosts, receiptProduct, receiveQty,
                   dashboardVars, otherVars>>

\* onChange of the extra-cost input
SetGlobalExtraCosts(text) ==
    /\ isReceiptModalOpen
    /\ globalExtraCosts' = text
    /\ addOutcome' = "none"
    /\ UNCHANGED <<products, isReceiptModalOpen, receiptSupplier, receiptItems,
                   receiptProduct, receiveQty, purchasePrice,
                   dashboardVars, otherVars>>

\* the mutant of AddRejects that lets a zero quantity through
AddRejectsNegativeOnly(qty, price) ==
    IsNaN(qty) \/ IsNaN(price) \/ RLt(qty, Zero)

\* isNaN(qty) || isNaN(price) || qty <= 0
AddRejects(qty, price) ==
    IsNaN(qty) \/ IsNaN(price) \/ RLe(qty, Zero)

\* the "add to list" button is enabled
AddEnabled ==
    /\ isReceiptModalOpen
    /\ receiptProduct # NoProduct
    /\ receiveQty # EmptyText
    /\ purchasePrice # EmptyText

\* handleAddToReceiptList
AddToReceiptList ==
    /\ AddEnabled
    /\ Len(receiptItems) < MaxLines
    /\ LET qty == ParseInt(receiveQty)
           price == ParseFloat(purchasePrice)
       IN  IF AddRejects(qty, price)
           THEN /\ addOutcome' = "rejected"
                /\ UNCHANGED <<receiptItems, receiptProduct, receiveQty,
                               purchasePrice>>
           ELSE /\ receiptItems' = Append(receiptItems,
                      [product |-> receiptProduct,
                       qty |-> qty,
                       supplierUnitPrice |-> price,
                       originalDbPrice |-> receiptProduct.purchasePrice,
                       supplierTotalCost |-> RMul(qty, price),
                       landedUnitCost |-> price,
                       landedTotalCost |-> RMul(qty, price)])
                /\ receiptProduct' = NoProduct
                /\ receiveQty' = EmptyText
                /\ purchasePrice' = EmptyText
                /\ addOutcome' = "added"
    /\ UNCHANGED <<products, isReceiptModalOpen, receiptSupplier,
                   globalExtraCosts,
                   dashboardVars, otherVars>>

\* handleRemoveFromList(index)
RemoveFromList(index) ==
    /\ isReceiptModalOpen
    /\ index \in 1..Len(receiptItems)
    /\ receiptItems' = SubSeq(receiptItems, 1, index - 1)
                       \o SubSeq(receiptItems, index + 1, Len(receiptItems))
    /\ addOutcome' = "none"
    /\ UNCHANGED <<products, isReceiptModalOpen, receiptSupplier,
                   globalExtraCosts, receiptProduct, receiveQty, purchasePrice,
                   dashboardVars, otherVars>>

\* the dialog's close and cancel buttons
CloseReceiptModal ==
    /\ isReceiptModalOpen
    /\ isReceiptModalOpen' = FALSE
    /\ addOutcome' = "none"
    /\ UNCHANGED <<products, receiptSupplier, receiptItems, globalExtraCosts,
                   receiptProduct, receiveQty, purchasePrice,
                   dashboardVars, otherVars>>

\* useState of Warehouse
DialogInit ==
    /\ isReceiptModalOpen = FALSE
    /\ receiptSupplier = EmptyText
    /\ receiptItems = <<>>
    /\ globalExtraCosts = <<"0">>
    /\ receiptProduct = NoProduct
    /\ receiveQty = EmptyText
    /\ purchasePrice = EmptyText
    /\ addOutcome = "none"

WarehouseInit == products = InitialProducts /\ DialogInit

ProductsOf(list) == {list[i] : i \in 1..Len(list)}

---------------------------------------------------------------------------
(* JavaScript Date, in local time *)

MsPerDay == 24 * 60 * 60 * 1000

\* days from 1970-01-01 to the civil date y-m-d (m in 1..12)
DaysFromCivil(y, m, d) ==
    LET yy  == IF m <= 2 THEN y - 1 ELSE y
        era == yy \div 400
        yoe == yy - era * 400
        mp  == IF m > 2 THEN m - 3 ELSE m + 9
        doy == (153 * mp + 2) \div 5 + d - 1
        doe == yoe * 365 + yoe \div 4 - yoe \div 100 + doy
    IN  era * 146097 + doe - 719468

\* the civil date [y, m (1..12), d] of a day number
CivilFromDays(z0) ==
    LET z   == z0 + 719468
        era == z \div 146097
        doe == z - era * 146097
        yoe == (doe - doe \div 1460 + doe \div 36524 - doe \div 146096) \div 365
        doy == doe - (365 * yoe + yoe \div 4 - yoe \div 100)
        mp  == (5 * doy + 2) \div 153
        d   == doy - (153 * mp + 2) \div 5 + 1
        m   == IF mp < 10 THEN mp + 3 ELSE mp - 9
    IN  [y |-> yoe + era * 400 + (IF m <= 2 THEN 1 ELSE 0), m |-> m, d |-> d]

\* MakeDay(year, month, date) of ECMAScript: month is 0-based and, like date,
\* may lie outside its range
MakeDay(year, month, date) ==
    DaysFromCivil(year + month \div 12, (month % 12) + 1, 1) + date - 1

\* a day number and a (possibly negative or overlong) time of day, normalised
MakeDate(day, time) ==
    [day |-> day + time \div MsPerDay, ms |-> time % MsPerDay]

TimeOf(h, mi, s, ms) == ((h * 60 + mi) * 60 + s) * 1000 + ms

\* new Date(year, month, date, hours, minutes, seconds)
NewDate(year, month, date, h, mi, s) ==
    MakeDate(MakeDay(year, month, date), TimeOf(h, mi, s, 0))

GetFullYear(t) == CivilFromDays(t.day).y

\* 0 = January
GetMonth(t) == CivilFromDays(t.day).m - 1

GetDate(t) == CivilFromDays(t.day).d

\* 0 = Sunday; 1970-01-01 was a Thursday
GetDay(t) == (t.day + 4) % 7

\* t.setDate(date)
SetDate(t, date) ==
    [day |-> MakeDay(GetFullYear(t), GetMonth(t), date), ms |-> t.ms]

\* t.setMonth(month): the day of the month is kept, and overflows
SetMonth(t, month) ==
    [day |-> MakeDay(GetFullYear(t), month, GetDate(t)), ms |-> t.ms]

\* t.setHours(h): minutes, seconds and milliseconds are kept
SetHours(t, h) ==
    MakeDate(MakeDay(GetFullYear(t), GetMonth(t), GetDate(t)),
             h * 3600000 + (t.ms % 3600000))

\* t.setHours(h, mi, s): milliseconds are kept
SetHoursMinSec(t, h, mi, s) ==
    MakeDate(MakeDay(GetFullYear(t), GetMonth(t), GetDate(t)),
             TimeOf(h, mi, s, t.ms % 1000))

\* a <= b and a < b on Dates
DateLe(a, b) == a.day < b.day \/ (a.day = b.day /\ a.ms <= b.ms)
DateLt(a, b) == a.day < b.day \/ (a.day = b.day /\ a.ms < b.ms)

---------------------------------------------------------------------------
(* Dashboard.tsx: the period comparator *)

Periods == {"today", "tomorrow", "week", "last_week", "month", "last_month", "all"}

\* new Date(now.getFullYear(), now.getMonth(), now.getDate())
TodayStart(n) == NewDate(GetFullYear(n), GetMonth(n), GetDate(n), 0, 0, 0)

\* new Date(now.getFullYear(), now.getMonth(), now.getDate(), 23, 59, 59)
TodayEnd(n) == NewDate(GetFullYear(n), GetMonth(n), GetDate(n), 23, 59, 59)

\* case 'today'
RangesToday(todayStart, todayEnd) ==
    [start |-> todayStart,
     end |-> todayEnd,
     prevStart |-> SetDate(todayStart, GetDate(todayStart) - 1),
     prevEnd |-> SetDate(todayEnd, GetDate(todayEnd) - 1),
     groupBy |-> "hour"]

\* the mutant of RangesTomorrow with daily buckets
RangesTomorrowDaily(todayStart, todayEnd) ==
    [start |-> SetDate(todayStart, GetDate(todayStart) + 1),
     end |-> SetDate(todayEnd, GetDate(todayEnd) + 1),
     prevStart |-> todayStart,
     prevEnd |-> todayEnd,
     groupBy |-> "day"]

\* case 'tomorrow'
RangesTomorrow(todayStart, todayEnd) ==
    [start |-> SetDate(todayStart, GetDate(todayStart) + 1),
     end |-> SetDate(todayEnd, GetDate(todayEnd) + 1),
     prevStart |-> todayStart,
     prevEnd |-> todayEnd,
     groupBy |-> "hour"]

\* const day = start.getDay() || 7; if (day !== 1) start.setHours(-24 * (day - 1))
StartOfWeek(start) ==
    LET day == IF GetDay(start) = 0 THEN 7 ELSE GetDay(start)
    IN  IF day # 1 THEN SetHours(start, -24 * (day - 1)) ELSE start

\* end = new Date(start); end.setDate(end.getDate() + 6); end.setHours(23, 59, 59)
EndOfWeek(start) ==
    SetHoursMinSec(SetDate(start, GetDate(start) + 6), 23, 59, 59)

\* the mutant of RangesWeek whose prior end is the day before the start, at
\* the start's time of day
RangesWeekShortPrev(todayStart, todayEnd) ==
    LET start == StartOfWeek(todayStart)
        end == EndOfWeek(start)
    IN  [start |-> start,
         end |-> end,
         prevStart |-> SetDate(start, GetDate(start) - 7),
         prevEnd |-> SetDate(start, GetDate(start) - 1),
         groupBy |-> "day"]

\* case 'week'
RangesWeek(todayStart, todayEnd) ==
    LET start == StartOfWeek(todayStart)
        end == EndOfWeek(start)
    IN  [start |-> start,
         end |-> end,
         prevStart |-> SetDate(start, GetDate(start) - 7),
         prevEnd |-> SetDate(end, GetDate(end) - 7),
         groupBy |-> "day"]

\* case 'last_week'
RangesLastWeek(todayStart, todayEnd) ==
    LET monday == StartOfWeek(todayStart)
        start == SetDate(monday, GetDate(monday) - 7)
        end == EndOfWeek(start)
    IN  [start |-> start,
         end |-> end,
         prevStart |-> SetDate(start, GetDate(start) - 7),
         prevEnd |-> SetDate(end, GetDate(end) - 7),
         groupBy |-> "day"]

\* new Date(t.getFullYear(), t.getMonth() + 1, 0, 23, 59, 59)
EndOfMonth(t) == NewDate(GetFullYear(t), GetMonth(t) + 1, 0, 23, 59, 59)

\* case 'month'
RangesMonth(todayStart, todayEnd) ==
    LET start == SetDate(todayStart, 1)
        prevStart == SetMonth(start, GetMonth(start) - 1)
    IN  [start |-> start,
         end |-> EndOfMonth(start),
         prevStart |-> prevStart,
         prevEnd |-> EndOfMonth(prevStart),
         groupBy |-> "day"]

\* case 'last_month': setMonth comes before setDate(1)
RangesLastMonth(todayStart, todayEnd) ==
    LET start == SetDate(SetMonth(todayStart, GetMonth(todayStart) - 1), 1)
        prevStart == SetMonth(start, GetMonth(start) - 1)
    IN  [start |-> start,
         end |-> EndOfMonth(start),
         prevStart |-> prevStart,
         prevEnd |-> EndOfMonth(prevStart),
         groupBy |-> "day"]

\* case 'all'
RangesAll(todayStart, todayEnd) ==
    [start |-> NewDate(2023, 0, 1, 0, 0, 0),
     end |-> todayEnd,
     prevStart |-> NewDate(2020, 0, 1, 0, 0, 0),
     prevEnd |-> todayEnd,
     groupBy |-> "day"]

\* getDateRanges(p), with the value n of new Date()
getDateRanges(p, n) ==
    LET todayStart == TodayStart(n)
        todayEnd == TodayEnd(n)
    IN  CASE p = "today" -> RangesToday(todayStart, todayEnd)
          [] p = "tomorrow" -> RangesTomorrow(todayStart, todayEnd)
          [] p = "week" -> RangesWeek(todayStart, todayEnd)
          [] p = "last_week" -> RangesLastWeek(todayStart, todayEnd)
          [] p = "month" -> RangesMonth(todayStart, todayEnd)
          [] p = "last_month" -> RangesLastMonth(todayStart, todayEnd)
          [] p = "all" -> RangesAll(todayStart, todayEnd)

\* checkDate of currentOrders / previousOrders: d >= s && d <= e
CheckDate(d, s, e) == DateLe(s, d) /\ DateLe(d, e)

\* the first day "now" is drawn from: Monday 2024-03-25
FirstDay == DaysFromCivil(2024, 3, 25)

\* the days "now" is drawn from: the days from FirstDay on (with NumDays = 8,
\* a whole week, Sunday the 31st and Monday the 1st), a leap day, and the last
\* and the first day of a year
NowDays ==
    FirstDay..(FirstDay + NumDays - 1)
    \cup {DaysFromCivil(2024, 2, 29), DaysFromCivil(2024, 12, 31),
          DaysFromCivil(2025, 1, 1)}

\* the times of day "now" and the order dates are drawn from: 00:00:00.000,
\* 12:00:00.000, 23:59:59.000 and 23:59:59.500
TimesOfDay == {0, TimeOf(12, 0, 0, 0), TimeOf(23, 59, 59, 0), TimeOf(23, 59, 59, 500)}

NowValues == {[day |-> d, ms |-> m] : d \in NowDays, m \in TimesOfDay}

\* the dates an order can carry: the days of "now" and up to two days around
\* them
OrderDates ==
    {[day |-> d + k, ms |-> m] : d \in NowDays, k \in -2..2, m \in TimesOfDay}

\* t.setHours(h, mi, s, ms) for an hour of the day
SetHoursMinSecMs(t, h, mi, s, ms) == [day |-> t.day, ms |-> TimeOf(h, mi, s, ms)]

\* the number of chart buckets: 24 for hours, and for days
\* Math.ceil(Math.abs(end.getTime() - start.getTime()) / (1000 * 60 * 60 * 24))
\* (the difference is taken as whole days and a rest of less than a day)
Iterations(r) ==
    IF r.groupBy = "hour" THEN 24
    ELSE LET first == IF DateLe(r.start, r.end) THEN r.start ELSE r.end
             last == IF DateLe(r.start, r.end) THEN r.end ELSE r.start
         IN  (last.day - first.day) + (IF last.ms > first.ms THEN 1 ELSE 0)

\* bucketStart / prevBucketStart of bucket i, from the start of the range
BucketStart(from, groupBy, i) ==
    IF groupBy = "hour"
    THEN SetHoursMinSecMs(from, i, 0, 0, 0)
    ELSE SetDate(from, GetDate(from) + i)

\* bucketEnd / prevBucketEnd of bucket i
BucketEnd(from, groupBy, i) ==
    IF groupBy = "hour"
    THEN SetHoursMinSecMs(from, i, 59, 59, 999)
    ELSE SetHoursMinSecMs(BucketStart(from, groupBy, i), 23, 59, 59, 999)

\* the buckets of chartData that count an order of the current range dated d
CurrentBuckets(r, d) ==
    {i \in 0..Iterations(r) - 1 :
        /\ DateLe(BucketStart(r.start, r.groupBy, i), d)
        /\ DateLe(d, BucketEnd(r.start, r.groupBy, i))}

\* the buckets of chartData that count an order of the prior range dated d
PreviousBuckets(r, d) ==
    {i \in 0..Iterations(r) - 1 :
        /\ DateLe(BucketStart(r.prevStart, r.groupBy, i), d)
        /\ DateLe(d, BucketEnd(r.prevStart, r.groupBy, i))}

\* useState<Period>('month') and the first useMemo, when the Dashboard mounts
DashboardInit ==
    /\ period = "month"
    /\ now \in NowValues
    /\ ranges = getDateRanges("month", now)

\* a click on a period button at time n: setPeriod(p) and the useMemo that
\* depends on [period]
SetPeriod(p, n) ==
    /\ p # period
    /\ DateLe(now, n)
    /\ period' = p
    /\ now' = n
    /\ ranges' = getDateRanges(p, n)
    /\ UNCHANGED <<warehouseVars, otherVars>>

\* the Dashboard is left and shown again at time n
RemountDashboard(n) ==
    /\ DateLe(now, n)
    /\ period' = "month"
    /\ now' = n
    /\ ranges' = getDateRanges("month", n)
    /\ UNCHANGED <<warehouseVars, otherVars>>

---------------------------------------------------------------------------
(* services/geminiService.ts: the text-generation operations.  A text is a
   sequence of tokens; " " is white space.  An outcome is what the external
   call does: it throws (ok = FALSE), or it answers with response.text
   undefined (hasText = FALSE) or with a text. *)

Outcomes ==
    { [ok |-> FALSE, hasText |-> FALSE, text |-> <<>>],
      [ok |-> TRUE, hasText |-> FALSE, text |-> <<>>],
      [ok |-> TRUE, hasText |-> TRUE, text |-> <<>>],
      [ok |-> TRUE, hasText |-> TRUE, text |-> <<" ">>],
      [ok |-> TRUE, hasText |-> TRUE, text |-> <<" ", "Medium box", " ">>] }

RECURSIVE TrimStart(_)
TrimStart(s) ==
    IF s # <<>> /\ Head(s) = " " THEN TrimStart(Tail(s)) ELSE s

RECURSIVE TrimEnd(_)
TrimEnd(s) ==
    IF s # <<>> /\ s[Len(s)] = " "
    THEN TrimEnd(SubSeq(s, 1, Len(s) - 1))
    ELSE s

\* String.prototype.trim
Trim(s) == TrimEnd(TrimStart(s))

\* response.text?.trim() || fallback
TextOr(outcome, fallback) ==
    IF outcome.hasText /\ Trim(outcome.text) # <<>>
    THEN Trim(outcome.text)
    ELSE fallback

\* try { ... return response.text?.trim() || emptyFallback }
\* catch (error) { console.error(...); return errorFallback }
TryGenerate(outcome, emptyFallback, errorFallback) ==
    IF outcome.ok
    THEN [thrown |-> FALSE, value |-> TextOr(outcome, emptyFallback)]
    ELSE [thrown |-> FALSE, value |-> errorFallback]

\* the same without the catch clause: the failure reaches the caller
GenerateUncaught(outcome, emptyFallback) ==
    IF outcome.ok
    THEN [thrown |-> FALSE, value |-> TextOr(outcome, emptyFallback)]
    ELSE [thrown |-> TRUE, value |-> <<>>]

DescriptionEmptyText == <<"Description could not be generated.">>
DescriptionErrorText == <<"Error generating description. Please check API Key.">>
AnalysisEmptyText == <<"Analysis unavailable.">>
AnalysisErrorText == <<"Analysis failed.">>
AdviceEmptyText == <<"Advice unavailable.">>
AdviceErrorText == <<"Could not generate shipping advice.">>

\* the mutant of generateProductDescription that does not catch
generateProductDescriptionUncaught(outcome) ==
    GenerateUncaught(outcome, DescriptionEmptyText)

generateProductDescription(outcome) ==
    TryGenerate(outcome, DescriptionEmptyText, DescriptionErrorText)

analyzeSalesData(outcome) ==
    TryGenerate(outcome, AnalysisEmptyText, AnalysisErrorText)

\* the mutant of getShippingAdvice that does not catch
getShippingAdviceUncaught(outcome) ==
    GenerateUncaught(outcome, AdviceEmptyText)

getShippingAdvice(outcome) ==
    TryGenerate(outcome, AdviceEmptyText, AdviceErrorText)

\* the fixed string an operation returns when the external call fails
ErrorTextOf(op) ==
    CASE op = "generateProductDescription" -> DescriptionErrorText
      [] op = "analyzeSalesData" -> AnalysisErrorText
      [] op = "getShippingAdvice" -> AdviceErrorText

NoReturn ==
    [op |-> "none", outcome |-> [ok |-> TRUE, hasText |-> FALSE, text |-> <<>>],
     thrown |-> FALSE, value |-> <<>>]

---------------------------------------------------------------------------
(* The two callers of the text generation *)

\* OrderDetail.handleGetAdvice up to the await; the button is disabled while
\* loadingAdvice
GetAdvice ==
    /\ ~loadingAdvice
    /\ adviceRequests < MaxRequests
    /\ loadingAdvice' = TRUE
    /\ adviceInFlight' = TRUE
    /\ adviceRequests' = adviceRequests + 1
    /\ adviceCalls' = adviceCalls + 1
    /\ UNCHANGED <<packagingAdvice, isGenerating, description, descInFlight,
                   descRequests, descCalls, lastReturn,
                   outsideGen>>

\* getShippingAdvice settles and handleGetAdvice goes on after the await; a
\* rejected promise would end the handler there
AdviceSettles(outcome) ==
    /\ adviceInFlight
    /\ LET result == getShippingAdvice(outcome)
       IN  /\ lastReturn' = [op |-> "getShippingAdvice", outcome |-> outcome,
                             thrown |-> result.thrown, value |-> result.value]
           /\ IF result.thrown
              THEN UNCHANGED <<packagingAdvice, loadingAdvice>>
              ELSE /\ packagingAdvice' = result.value
                   /\ loadingAdvice' = FALSE
    /\ adviceInFlight' = FALSE
    /\ UNCHANGED <<adviceRequests, adviceCalls, isGenerating, description,
                   descInFlight, descRequests, descCalls,
                   outsideGen>>

\* ProductList.handleGenerateDescription(targetLang) up to the await; hasName
\* is editingProduct.name_ru || editingProduct.name_uk; the buttons are
\* disabled while isGenerating
GenerateDescription(targetLang, hasName) ==
    /\ ~isGenerating
    /\ descRequests < MaxRequests
    /\ IF hasName
       THEN /\ isGenerating' = TRUE
            /\ descInFlight' = targetLang
            /\ descRequests' = descRequests + 1
            /\ descCalls' = descCalls + 1
       ELSE UNCHANGED <<isGenerating, descInFlight, descRequests, descCalls>>
    /\ UNCHANGED <<loadingAdvice, packagingAdvice, adviceInFlight,
                   adviceRequests, adviceCalls, description, lastReturn,
                   outsideGen>>

\* generateProductDescription settles and handleGenerateDescription goes on
\* after the await
DescriptionSettles(outcome) ==
    /\ descInFlight # "none"
    /\ LET result == generateProductDescription(outcome)
       IN  /\ lastReturn' = [op |-> "generateProductDescription",
                             outcome |-> outcome,
                             thrown |-> result.thrown, value |-> result.value]
           /\ IF result.thrown
              THEN UNCHANGED <<description, isGenerating>>
              ELSE /\ description' =
                        [description EXCEPT ![descInFlight] = result.value]
                   /\ isGenerating' = FALSE
    /\ descInFlight' = "none"
    /\ UNCHANGED <<loadingAdvice, packagingAdvice, adviceInFlight,
                   adviceRequests, adviceCalls, descRequests, descCalls,
                   outsideGen>>

\* useState of OrderDetail and ProductList
GenInit ==
    /\ loadingAdvice = FALSE
    /\ packagingAdvice = <<>>
    /\ adviceInFlight = FALSE
    /\ adviceRequests = 0
    /\ adviceCalls = 0
    /\ isGenerating = FALSE
    /\ description = [ru |-> <<>>, uk |-> <<>>]
    /\ descInFlight = "none"
    /\ descRequests = 0
    /\ descCalls = 0
    /\ lastReturn = NoReturn

---------------------------------------------------------------------------
(* unnamed/part_000: OrderDetail, the order editor *)

\* the product an item can be added for (App state, not changed here)
OrderProducts == { [id |-> 1, price |-> IntR(100)] }

\* what the user can type into an item's quantity and discount inputs and into
\* the shipping-cost input
ItemQtyInputs == { <<>>, <<"0">>, <<"3">> }
ItemDiscountInputs == { <<>>, <<"2", "0">> }
ShippingInputs == { <<>>, <<"7", ".", "5">> }

\* Math.floor(Math.random() * (150 - 60 + 1) + 60): the least and the greatest
MockCosts == { IntR(60), IntR(150) }

\* x || 1
OrOne(x) == IF IsNaN(x) \/ x = Zero THEN IntR(1) ELSE x

\* the mutant of ItemTotal that leaves the discount out
ItemTotalWithoutDiscount(item) == RMul(item.price, item.quantity)

\* (item.price - (item.discount || 0)) * item.quantity
ItemTotal(item) ==
    RMul(RAdd(item.price, RMul(IntR(-1), OrZero(item.discount))), item.quantity)

\* currentOrder.items.reduce((acc, item) => acc + itemTotal, 0)
OrderTotal(items) == Sum([i \in 1..Len(items) |-> ItemTotal(items[i])])

\* the order handleCreateOrder makes
NewOrder == [items |-> <<>>, total |-> Zero, shippingCost |-> <<>>, ttn |-> FALSE]

\* React runs a pending effect before it handles the next event, so a handler
\* of the user never sees the order between an item change and the effect
UserCanAct == ~totalEffectPending

\* the useEffect on [currentOrder.items]
TotalEffect ==
    /\ totalEffectPending
    /\ LET newTotal == OrderTotal(currentOrder.items)
       IN  currentOrder' =
               IF newTotal # currentOrder.total
               THEN [currentOrder EXCEPT !.total = newTotal]
               ELSE currentOrder
    /\ totalEffectPending' = FALSE
    /\ actor' = "effect"
    /\ UNCHANGED <<savedOrder, isFetchingShipping, shippingTimer,
                   importVars, outsideEditors>>

\* handleShippingCostChange(value)
ShippingCostChange(value) ==
    /\ UserCanAct
    /\ currentOrder' =
           [currentOrder EXCEPT !.shippingCost = <<OrZero(ParseFloat(value))>>]
    /\ actor' = "user"
    /\ UNCHANGED <<savedOrder, isFetchingShipping, shippingTimer,
                   totalEffectPending, importVars, outsideEditors>>

\* handleSave
SaveOrder ==
    /\ UserCanAct
    /\ savedOrder' = currentOrder
    /\ actor' = "user"
    /\ UNCHANGED <<currentOrder, isFetchingShipping, shippingTimer,
                   totalEffectPending, importVars, outsideEditors>>

\* handleGenerateTTN
GenerateTTN ==
    /\ UserCanAct
    /\ currentOrder' = [currentOrder EXCEPT !.ttn = TRUE]
    /\ savedOrder' = currentOrder'
    /\ actor' = "user"
    /\ UNCHANGED <<isFetchingShipping, shippingTimer, totalEffectPending,
                   importVars, outsideEditors>>

\* the mutant of FetchEnabled that does not look at the loading flag
FetchEnabledWithWaybill == currentOrder.ttn

\* the fetch button: disabled={!currentOrder.ttn || isFetchingShipping}
FetchEnabled == currentOrder.ttn /\ ~isFetchingShipping

\* handleFetchShippingCost; the button is disabled without a TTN and while
\* isFetchingShipping
FetchShippingCost ==
    /\ UserCanAct
    /\ FetchEnabled
    /\ shippingTimer < MaxTimers
    /\ isFetchingShipping' = TRUE
    /\ shippingTimer' = shippingTimer + 1
    /\ actor' = "user"
    /\ UNCHANGED <<currentOrder, savedOrder, totalEffectPending,
                   importVars, outsideEditors>>

\* the mutant of ShippingTimerEffect that also hands the order to App
ShippingTimerEffectSaving(mockCost) ==
    /\ currentOrder' = [currentOrder EXCEPT !.shippingCost = <<mockCost>>]
    /\ isFetchingShipping' = FALSE
    /\ savedOrder' = currentOrder'

\* setCurrentOrder(prev => ({ ...prev, shippingCost: mockCost }));
\* setIsFetchingShipping(false)
ShippingTimerEffect(mockCost) ==
    /\ currentOrder' = [currentOrder EXCEPT !.shippingCost = <<mockCost>>]
    /\ isFetchingShipping' = FALSE
    /\ savedOrder' = savedOrder

\* the callback of the setTimeout of handleFetchShippingCost
ShippingTimerFires(mockCost) ==
    /\ shippingTimer > 0
    /\ ShippingTimerEffect(mockCost)
    /\ shippingTimer' = shippingTimer - 1
    /\ actor' = "timer"
    /\ UNCHANGED <<totalEffectPending, importVars, outsideEditors>>

\* handleItemChange(index, field, value), with the value the input's onChange
\* computes from the text: parseInt(text) || 1, parseInt(text) || 0
ItemChange(index, field, text) ==
    /\ UserCanAct
    /\ index \in 1..Len(currentOrder.items)
    /\ LET value == IF field = "quantity"
                    THEN OrOne(ParseInt(text))
                    ELSE OrZero(ParseInt(text))
           updatedItems ==
               [currentOrder.items EXCEPT
                   ![index] = [currentOrder.items[index] EXCEPT ![field] = value]]
       IN  currentOrder' = [currentOrder EXCEPT !.items = updatedItems]
    /\ totalEffectPending' = TRUE
    /\ actor' = "user"
    /\ UNCHANGED <<savedOrder, isFetchingShipping, shippingTimer,
                   importVars, outsideEditors>>

\* handleDeleteItem(index)
DeleteItem(index) ==
    /\ UserCanAct
    /\ index \in 1..Len(currentOrder.items)
    /\ currentOrder' =
           [currentOrder EXCEPT
               !.items = SubSeq(currentOrder.items, 1, index - 1)
                         \o SubSeq(currentOrder.items, index + 1,
                                   Len(currentOrder.items))]
    /\ totalEffectPending' = TRUE
    /\ actor' = "user"
    /\ UNCHANGED <<savedOrder, isFetchingShipping, shippingTimer,
                   importVars, outsideEditors>>

\* handleSelectProductToAdd(product)
SelectProductToAdd(product) ==
    /\ UserCanAct
    /\ Len(currentOrder.items) < MaxItems
    /\ currentOrder' =
           [currentOrder EXCEPT
               !.items = Append(currentOrder.items,
                                [productId |-> product.id,
                                 price |-> product.price,
                                 quantity |-> IntR(1),
                                 discount |-> Zero])]
    /\ totalEffectPending' = TRUE
    /\ actor' = "user"
    /\ UNCHANGED <<savedOrder, isFetchingShipping, shippingTimer,
                   importVars, outsideEditors>>

\* useState of OrderDetail for a new order; the effect runs once on mount
OrderInit ==
    /\ currentOrder = NewOrder
    /\ savedOrder = NewOrder
    /\ isFetchingShipping = FALSE
    /\ shippingTimer = 0
    /\ totalEffectPending = TRUE
    /\ actor = "none"

---------------------------------------------------------------------------
(* ProductList.tsx: the import dialog *)

\* the import button
OpenImport ==
    /\ ~isImportModalOpen
    /\ isImportModalOpen' = TRUE
    /\ actor' = "user"
    /\ UNCHANGED <<importStep, importFile, fileHeaders, importTimers,
                   orderVars, outsideEditors>>

\* the dialog's close button
CloseImport ==
    /\ isImportModalOpen
    /\ isImportModalOpen' = FALSE
    /\ actor' = "user"
    /\ UNCHANGED <<importStep, importFile, fileHeaders, importTimers,
                   orderVars, outsideEditors>>

\* handleFileSelect with a file chosen; the file input is shown in step 1
FileSelect ==
    /\ isImportModalOpen
    /\ importStep = 1
    /\ importTimers < MaxTimers
    /\ importFile' = TRUE
    /\ importTimers' = importTimers + 1
    /\ actor' = "user"
    /\ UNCHANGED <<isImportModalOpen, importStep, fileHeaders,
                   orderVars, outsideEditors>>

\* the callback of the setTimeout of handleFileSelect
FileTimerFires ==
    /\ importTimers > 0
    /\ fileHeaders' = TRUE
    /\ importStep' = 2
    /\ importTimers' = importTimers - 1
    /\ actor' = "timer"
    /\ UNCHANGED <<isImportModalOpen, importFile, orderVars, outsideEditors>>

\* the back button of step 2
ImportBack ==
    /\ isImportModalOpen
    /\ importStep = 2
    /\ importStep' = 1
    /\ actor' = "user"
    /\ UNCHANGED <<isImportModalOpen, importFile, fileHeaders, importTimers,
                   orderVars, outsideEditors>>

\* useState of ProductList
ImportInit ==
    /\ isImportModalOpen = FALSE
    /\ importStep = 1
    /\ importFile = FALSE
    /\ fileHeaders = FALSE
    /\ importTimers = 0

---------------------------------------------------------------------------
(* Directories.tsx and App.tsx: the categories *)

\* parentId: null (and the id of an item that is not saved yet)
NoId == 0

\* the categories the application starts with: a root and a child of it
InitialCategories ==
    << [id |-> 1, parentId |-> NoId], [id |-> 2, parentId |-> 1] >>

\* handleOpenModal() without an item: {}
NewItem == [id |-> NoId, parentId |-> NoId]

IdsOf(list) == {list[i].id : i \in 1..Len(list)}

\* list.filter(keep), for a set of positions to keep
RECURSIVE FilterSeq(_, _)
FilterSeq(list, keep) ==
    IF list = <<>> THEN <<>>
    ELSE IF keep[Head(list)]
         THEN <<Head(list)>> \o FilterSeq(Tail(list), keep)
         ELSE FilterSeq(Tail(list), keep)

RECURSIVE RenderedBelow(_, _, _)
\* the ids of the rows renderCategoryRows(parentId, level) gives
RenderedBelow(list, parentId, level) ==
    IF level > Len(list) THEN {}
    ELSE LET children == {c \in ProductsOf(list) : c.parentId = parentId}
         IN  {c.id : c \in children}
             \cup UNION {RenderedBelow(list, c.id, level + 1) : c \in children}

\* the rows of the category table: renderCategoryRows(null, 0)
Rendered(list) == RenderedBelow(list, NoId, 0)

\* the options of the parent select: the root, and every category but the
\* edited one
ParentOptions(list, item) == {NoId} \cup (IdsOf(list) \ {item.id})

\* the add button, and the edit button of a row
OpenCategoryModal(item) ==
    /\ ~isModalOpen
    /\ item = NewItem \/ (item \in ProductsOf(categories)
                          /\ item.id \in Rendered(categories))
    /\ editingItem' = item
    /\ isModalOpen' = TRUE
    /\ UNCHANGED <<categories, clock, outsideDirectories>>

\* onChange of the parent select
SetParent(parentId) ==
    /\ isModalOpen
    /\ parentId \in ParentOptions(categories, editingItem)
    /\ editingItem' = [editingItem EXCEPT !.parentId = parentId]
    /\ UNCHANGED <<categories, isModalOpen, clock, outsideDirectories>>

\* handleUpdateCategory(updated)
UpdateCategory(list, updated) ==
    [i \in 1..Len(list) |-> IF list[i].id = updated.id THEN updated ELSE list[i]]

\* handleDeleteCategory(id)
DeleteCategoryFrom(list, id) ==
    FilterSeq(list, [c \in ProductsOf(list) |-> c.id # id])

\* handleSave of a category: onUpdateCategory for an item with an id,
\* onAddCategory with id Date.now() otherwise
SaveCategory ==
    /\ isModalOpen
    /\ IF editingItem.id # NoId
       THEN /\ categories' = UpdateCategory(categories, editingItem)
            /\ clock' = clock
       ELSE /\ Len(categories) < MaxCategories
            /\ clock < MaxId
            /\ clock' = clock + 1
            /\ categories' =
                   Append(categories, [editingItem EXCEPT !.id = clock'])
    /\ isModalOpen' = FALSE
    /\ UNCHANGED <<editingItem, outsideDirectories>>

\* the dialog's cancel button
CloseCategoryModal ==
    /\ isModalOpen
    /\ isModalOpen' = FALSE
    /\ UNCHANGED <<categories, editingItem, clock, outsideDirectories>>

\* handleDelete(id) of a row, confirmed
DeleteCategory(id) ==
    /\ ~isModalOpen
    /\ id \in Rendered(categories)
    /\ categories' = DeleteCategoryFrom(categories, id)
    /\ UNCHANGED <<isModalOpen, editingItem, clock, outsideDirectories>>

\* useState of App and of Directories
DirectoriesInit ==
    /\ categories = InitialCategories
    /\ isModalOpen = FALSE
    /\ editingItem = NewItem

\* useState of App for the receipts; Date.now() has given the ids so far
ReceiptsInit ==
    /\ warehouseReceipts = <<>>
    /\ clock = Len(InitialCategories)

---------------------------------------------------------------------------
(* Warehouse.tsx and App.tsx: finalizing a receipt batch *)

\* two products to receive
StockedProducts ==
    << [id |-> 1, purchasePrice |-> IntR(5), stock |-> 3],
       [id |-> 2, purchasePrice |-> IntR(2), stock |-> 0] >>

\* what the user types and selects in the dialog before finalizing
BatchQtyInputs == { <<"3">> }
BatchPriceInputs == { <<"5">>, <<"2">> }
BatchExtraInputs == { <<"0">>, <<"1", "0">> }
SupplierInputs == { <<"1">> }

\* the lines handleAddToReceiptList makes of these inputs
BatchLines ==
    { [product |-> p,
       qty |-> ParseInt(qtyText),
       supplierUnitPrice |-> ParseFloat(priceText),
       originalDbPrice |-> p.purchasePrice,
       supplierTotalCost |-> RMul(ParseInt(qtyText), ParseFloat(priceText)),
       landedUnitCost |-> ParseFloat(priceText),
       landedTotalCost |-> RMul(ParseInt(qtyText), ParseFloat(priceText))] :
         p \in ProductsOf(StockedProducts), qtyText \in BatchQtyInputs,
         priceText \in BatchPriceInputs }

\* the receipt lists of at most MaxLines lines
BatchLists == UNION {[1..n -> BatchLines] : n \in 0..MaxLines}

\* the dialog with a list of lines added, before the supplier and the extra
\* cost are touched again
BatchInit ==
    /\ products = StockedProducts
    /\ isReceiptModalOpen = TRUE
    /\ receiptSupplier \in {EmptyText} \cup SupplierInputs
    /\ receiptItems \in BatchLists
    /\ globalExtraCosts \in BatchExtraInputs
    /\ receiptProduct = NoProduct
    /\ receiveQty = EmptyText
    /\ purchasePrice = EmptyText
    /\ addOutcome = "none"

\* floor(n / d) for d > 0
FloorDiv(n, d) == IF n >= 0 THEN n \div d ELSE -((-n + d - 1) \div d)

\* parseFloat(x.toFixed(2)): the nearest multiple of 0.01, the one further
\* from zero of two; a value that is not finite stays what it is
ToFixed2(x) ==
    IF x.d = 0 THEN x
    ELSE Norm(Sign(x.n) * FloorDiv(2 * 100 * Abs(x.n) + x.d, 2 * x.d), 100)

\* onChange of the supplier select
SetReceiptSupplier(text) ==
    /\ isReceiptModalOpen
    /\ receiptSupplier' = text
    /\ addOutcome' = "none"
    /\ UNCHANGED <<products, isReceiptModalOpen, receiptItems,
                   globalExtraCosts, receiptProduct, receiveQty, purchasePrice,
                   dashboardVars, otherVars>>

\* the product handleFinalizeReceipt passes to onUpdateProduct for a line
ReceivedProduct(item) ==
    [item.product EXCEPT
        !.stock = item.product.stock + item.qty.n,
        !.purchasePrice = ToFixed2(item.landedUnitCost)]

\* products.map(p => p.id === updatedProduct.id ? updatedProduct : p)
ReplaceProduct(list, updatedProduct) ==
    [i \in 1..Len(list) |->
        IF list[i].id = updatedProduct.id THEN updatedProduct ELSE list[i]]

\* calculatedItems.forEach(item => onUpdateProduct(...)): every call of
\* handleUpdateProduct maps the products of the render the handler belongs
\* to and replaces the state with the result, so the state after the batch is
\* the one the last call sets
ProductsAfterBatch(list, calculatedItems) ==
    IF calculatedItems = <<>> THEN list
    ELSE ReplaceProduct(list,
             ReceivedProduct(calculatedItems[Len(calculatedItems)]))

\* the mutant of NewReceipt that records the landed value of the batch
NewReceiptLanded(id, supplierText, calc) ==
    [id |-> id,
     supplierId |-> ParseInt(supplierText),
     totalAmount |-> calc.totalLandedValue,
     isPaid |-> FALSE,
     itemsCount |-> Sum([i \in 1..Len(calc.calculatedItems) |->
                            calc.calculatedItems[i].qty]),
     items |-> calc.calculatedItems]

\* the receipt handleFinalizeReceipt makes, with id Date.now()
NewReceipt(id, supplierText, calc) ==
    [id |-> id,
     supplierId |-> ParseInt(supplierText),
     totalAmount |-> calc.totalSupplierValue,
     isPaid |-> FALSE,
     itemsCount |-> Sum([i \in 1..Len(calc.calculatedItems) |->
                            calc.calculatedItems[i].qty]),
     items |-> calc.calculatedItems]

\* handleCreateReceipt(receipt): [receipt, ...warehouseReceipts]
handleCreateReceipt(list, receipt) == <<receipt>> \o list

\* handleFinalizeReceipt; the button is disabled while the list is empty or
\* no supplier is selected
FinalizeReceipt ==
    /\ isReceiptModalOpen
    /\ receiptItems # <<>>
    /\ receiptSupplier # EmptyText
    /\ Len(warehouseReceipts) < MaxFinalized
    /\ clock < MaxId
    /\ LET calc == Calculator(receiptItems, globalExtraCosts)
       IN  /\ products' = ProductsAfterBatch(products, calc.calculatedItems)
           /\ clock' = clock + 1
           /\ warehouseReceipts' =
                  handleCreateReceipt(warehouseReceipts,
                      NewReceipt(clock', receiptSupplier, calc))
    /\ isReceiptModalOpen' = FALSE
    /\ addOutcome' = "none"
    /\ UNCHANGED <<receiptSupplier, receiptItems, globalExtraCosts,
                   receiptProduct, receiveQty, purchasePrice, outsideReceipts>>

---------------------------------------------------------------------------
(* App.tsx and SupplierSettlements.tsx: the receipts and what is owed *)

\* the totalSupplierValue of the batches the receipts are made for; a batch
\* of lines with unit price 0 has the total 0
ReceiptTotals == { Zero, IntR(15), IntR(40) }

\* the mutant of AccountsPayable that adds up the paid receipts too
AccountsPayableOfAll(list) ==
    Sum([i \in 1..Len(list) |-> list[i].totalAmount])

\* calculateMetrics: warehouseReceipts.filter(r => !r.isPaid)
\*                     .reduce((acc, curr) => acc + curr.totalAmount, 0)
AccountsPayable(list) ==
    LET unpaid == FilterSeq(list, [r \in ProductsOf(list) |-> ~r.isPaid])
    IN  Sum([i \in 1..Len(unpaid) |-> unpaid[i].totalAmount])

\* the mutant of handleMarkReceiptPaid that sets the flag of every receipt:
\* true for the one with the id, false for the others
handleMarkOnlyReceiptPaid(list, id) ==
    [i \in 1..Len(list) |-> [list[i] EXCEPT !.isPaid = (list[i].id = id)]]

\* handleMarkReceiptPaid(id)
handleMarkReceiptPaid(list, id) ==
    [i \in 1..Len(list) |->
        IF list[i].id = id THEN [list[i] EXCEPT !.isPaid = TRUE] ELSE list[i]]

\* handleDeleteReceipt(id)
handleDeleteReceipt(list, id) ==
    FilterSeq(list, [r \in ProductsOf(list) |-> r.id # id])

\* onCreateReceipt with the receipt of a finalized batch
CreateReceipt(totalAmount) ==
    /\ Len(warehouseReceipts) < MaxReceipts
    /\ clock < MaxId
    /\ clock' = clock + 1
    /\ warehouseReceipts' =
           handleCreateReceipt(warehouseReceipts,
               [id |-> clock', supplierId |-> IntR(1),
                totalAmount |-> totalAmount, isPaid |-> FALSE,
                itemsCount |-> IntR(3)])
    /\ UNCHANGED <<warehouseVars, outsideReceipts>>

\* the "mark paid" button of a receipt, shown while the receipt is unpaid
MarkReceiptPaid(id) ==
    /\ \E r \in ProductsOf(warehouseReceipts) : r.id = id /\ ~r.isPaid
    /\ warehouseReceipts' = handleMarkReceiptPaid(warehouseReceipts, id)
    /\ UNCHANGED <<clock, warehouseVars, outsideReceipts>>

\* the delete button of a receipt, confirmed
DeleteReceipt(id) ==
    /\ id \in IdsOf(warehouseReceipts)
    /\ warehouseReceipts' = handleDeleteReceipt(warehouseReceipts, id)
    /\ UNCHANGED <<clock, warehouseVars, outsideReceipts>>

---------------------------------------------------------------------------
(* App.tsx: update and delete by id in the six lists *)

Collections ==
    {"orders", "products", "suppliers", "customers", "categories", "receipts"}

\* the records a list of a collection holds: an id and the rest of the fields
RecordsIn(c) ==
    IF c = "receipts"
    THEN [id : 1..MaxRecordId, isPaid : BOOLEAN]
    ELSE [id : 1..MaxRecordId, data : 0..1]

\* the lists of at most MaxRecords records, ids repeated or not
ListsOf(c) == UNION {[1..n -> RecordsIn(c)] : n \in 0..MaxRecords}

\* handleUpdateOrder(updatedOrder)
handleUpdateOrder(list, updatedOrder) ==
    [i \in 1..Len(list) |->
        IF list[i].id = updatedOrder.id THEN updatedOrder ELSE list[i]]

\* the filter of handleDeleteOrder(id)
handleDeleteOrder(list, id) ==
    FilterSeq(list, [o \in ProductsOf(list) |-> o.id # id])

\* handleDeleteProduct(id)
handleDeleteProduct(list, id) ==
    FilterSeq(list, [p \in ProductsOf(list) |-> p.id # id])

\* handleUpdateSupplier(updated)
handleUpdateSupplier(list, updated) ==
    [i \in 1..Len(list) |-> IF list[i].id = updated.id THEN updated ELSE list[i]]

\* filter that drops the first record with the id only
RECURSIVE DeleteFirstMatch(_, _)
DeleteFirstMatch(list, id) ==
    IF list = <<>> THEN <<>>
    ELSE IF Head(list).id = id THEN Tail(list)
         ELSE <<Head(list)>> \o DeleteFirstMatch(Tail(list), id)

\* handleDeleteSupplier(id)
handleDeleteSupplier(list, id) ==
    FilterSeq(list, [s \in ProductsOf(list) |-> s.id # id])

\* handleUpdateCustomer(updated)
handleUpdateCustomer(list, updated) ==
    [i \in 1..Len(list) |-> IF list[i].id = updated.id THEN updated ELSE list[i]]

\* handleDeleteCustomer(id)
handleDeleteCustomer(list, id) ==
    FilterSeq(list, [c \in ProductsOf(list) |-> c.id # id])

\* the update handler of each list; the receipts have handleMarkReceiptPaid
UpdateRecord(updated) ==
    /\ collection # "receipts"
    /\ records' =
           CASE collection = "orders" -> handleUpdateOrder(records, updated)
             [] collection = "products" -> ReplaceProduct(records, updated)
             [] collection = "suppliers" -> handleUpdateSupplier(records, updated)
             [] collection = "customers" -> handleUpdateCustomer(records, updated)
             [] collection = "categories" -> UpdateCategory(records, updated)
    /\ lastOp' = [op |-> "update", id |-> updated.id, arg |-> updated,
                  before |-> records]
    /\ UNCHANGED <<collection, outsideCollections>>

\* handleMarkReceiptPaid(id) on the list of receipts
MarkPaidRecord(id) ==
    /\ collection = "receipts"
    /\ records' = handleMarkReceiptPaid(records, id)
    /\ lastOp' = [op |-> "paid", id |-> id, arg |-> id, before |-> records]
    /\ UNCHANGED <<collection, outsideCollections>>

\* the delete handler of each list
DeleteRecord(id) ==
    /\ records' =
           CASE collection = "orders" -> handleDeleteOrder(records, id)
             [] collection = "products" -> handleDeleteProduct(records, id)
             [] collection = "suppliers" -> handleDeleteSupplier(records, id)
             [] collection = "customers" -> handleDeleteCustomer(records, id)
             [] collection = "categories" -> DeleteCategoryFrom(records, id)
             [] collection = "receipts" -> handleDeleteReceipt(records, id)
    /\ lastOp' = [op |-> "delete", id |-> id, arg |-> id, before |-> records]
    /\ UNCHANGED <<collection, outsideCollections>>

NoOp == [op |-> "none", id |-> NoId, arg |-> NoId, before |-> <<>>]

\* no list under the handlers
CollectionsIdle ==
    /\ collection = "orders"
    /\ records = <<>>
    /\ lastOp = NoOp

\* any list of any of the six collections
CollectionsInit ==
    /\ collection \in Collections
    /\ records \in ListsOf(collection)
    /\ lastOp = NoOp

---------------------------------------------------------------------------
(* ProductList.tsx and App.tsx: the rows of an import and their execution *)

\* the products of the list the import meets: [id, sku, price, stock]; the
\* first has the sku of the first row of the file
CatalogProducts ==
    << [id |-> 1, sku |-> "DOG-FOOD-001", price |-> 1200, stock |-> 50],
       [id |-> 2, sku |-> "CAT-TOY-002", price |-> 300, stock |-> 5] >>

\* mockParsedData of handleAnalyzeImport
mockParsedData ==
    << [sku |-> "DOG-FOOD-001", price |-> 1300, stock |-> 50],
       [sku |-> "NEW-ITEM-999", price |-> 900, stock |-> 20] >>

\* products.find(p => p.sku === sku): the position of the first, 0 for none
RECURSIVE FindSku(_, _, _)
FindSku(list, sku, from) ==
    IF from > Len(list) THEN 0
    ELSE IF list[from].sku = sku THEN from
    ELSE FindSku(list, sku, from + 1)

\* the comparison of handleAnalyzeImport; a new product gets the id
\* Date.now() + Math.random(), here the clock value plus the row's position
Comparison(list, time) ==
    [i \in 1..Len(mockParsedData) |->
        LET row == mockParsedData[i]
            k == FindSku(list, row.sku, 1)
        IN  IF k # 0
            THEN [type |-> "update",
                  newProduct |-> [list[k] EXCEPT !.sku = row.sku,
                                     !.price = row.price, !.stock = row.stock],
                  selected |-> TRUE]
            ELSE [type |-> "new",
                  newProduct |-> [id |-> time + i, sku |-> row.sku,
                                  price |-> row.price, stock |-> row.stock],
                  selected |-> TRUE]]

\* handleAnalyzeImport: the review button of step 2
AnalyzeImport ==
    /\ isImportModalOpen
    /\ importStep = 2
    /\ clock + Len(mockParsedData) <= MaxId
    /\ clock' = clock + Len(mockParsedData)
    /\ diffItems' = Comparison(products, clock)
    /\ importStep' = 3
    /\ actor' = "user"
    /\ UNCHANGED <<products, isImportModalOpen, importFile, fileHeaders,
                   importTimers, outsideImport>>

\* the back button of step 3
ImportBackToMapping ==
    /\ isImportModalOpen
    /\ importStep = 3
    /\ importStep' = 2
    /\ actor' = "user"
    /\ UNCHANGED <<products, isImportModalOpen, importFile, fileHeaders,
                   importTimers, diffItems, clock, outsideImport>>

\* toggleDiffSelection(index): the checkbox of a row
ToggleDiffSelection(index) ==
    /\ isImportModalOpen
    /\ importStep = 3
    /\ index \in 1..Len(diffItems)
    /\ diffItems' =
           [diffItems EXCEPT ![index].selected = ~diffItems[index].selected]
    /\ actor' = "user"
    /\ UNCHANGED <<products, importVars, clock, outsideImport>>

\* onAddProduct of App: setProducts([p, ...products])
onAddProduct(list, p) == <<p>> \o list

\* what one call of the forEach of handleExecuteImport sets the products to
ImportedItem(list, item) ==
    IF item.type = "update"
    THEN ReplaceProduct(list, item.newProduct)
    ELSE onAddProduct(list, item.newProduct)

\* diffItems.forEach(...): onUpdateProduct and onAddProduct both set the
\* products from the list of the render the handler belongs to, so the
\* products after the loop are what the last call for a selected row sets
ProductsAfterImport(list, items) ==
    LET chosen == FilterSeq(items, [item \in ProductsOf(items) |-> item.selected])
    IN  IF chosen = <<>> THEN list
        ELSE ImportedItem(list, chosen[Len(chosen)])

\* handleExecuteImport: the apply button of step 3
ExecuteImport ==
    /\ isImportModalOpen
    /\ importStep = 3
    /\ products' = ProductsAfterImport(products, diffItems)
    /\ isImportModalOpen' = FALSE
    /\ importStep' = 1
    /\ importFile' = FALSE
    /\ actor' = "user"
    /\ UNCHANGED <<fileHeaders, importTimers, diffItems, clock, outsideImport>>

\* handleDelete of a row of the product table, confirmed
DeleteCatalogProduct(id) ==
    /\ ~isImportModalOpen
    /\ id \in IdsOf(products)
    /\ products' = handleDeleteProduct(products, id)
    /\ actor' = "user"
    /\ UNCHANGED <<importVars, diffItems, clock, outsideImport>>

\* useState of diffItems
DiffInit == diffItems = <<>>

---------------------------------------------------------------------------
(* ProductList.tsx: the product dialog and the description generated for it *)

\* the products of the table: [id, name_ru, name_uk, description_ru,
\* description_uk]
DescribedProducts ==
    << [id |-> 1, name_ru |-> <<"Korm">>, name_uk |-> <<"Korm">>,
        description_ru |-> <<"first">>, description_uk |-> <<>>],
       [id |-> 2, name_ru |-> <<"Myach">>, name_uk |-> <<>>,
        description_ru |-> <<"second">>, description_uk |-> <<>>] >>

NameInputs == { <<>>, <<"Igrushka">> }
DescriptionInputs == { <<"typed">> }

\* handleEdit(product): the edit button of a row of the table
EditProduct(product) ==
    /\ ~isProductModalOpen
    /\ editingProduct' = [id |-> product.id, name_ru |-> product.name_ru,
                          name_uk |-> product.name_uk]
    /\ description' = [ru |-> product.description_ru,
                       uk |-> product.description_uk]
    /\ isProductModalOpen' = TRUE
    /\ UNCHANGED <<products, isGenerating, descInFlight, descRequests,
                   descCalls, lastReturn, descFor, clock, outsideDraft>>

\* handleAddNew: a draft with id Date.now() and no name
AddNewProduct ==
    /\ ~isProductModalOpen
    /\ clock < MaxId
    /\ clock' = clock + 1
    /\ editingProduct' = [id |-> clock', name_ru |-> <<>>, name_uk |-> <<>>]
    /\ description' = [ru |-> <<>>, uk |-> <<>>]
    /\ isProductModalOpen' = TRUE
    /\ UNCHANGED <<products, isGenerating, descInFlight, descRequests,
                   descCalls, lastReturn, descFor, outsideDraft>>

\* the cancel button and the cross of the dialog: setIsModalOpen(false)
CancelProduct ==
    /\ isProductModalOpen
    /\ isProductModalOpen' = FALSE
    /\ UNCHANGED <<products, editingProduct, genVars, descFor, clock,
                   outsideDraft>>

\* onChange of the name input
EditName(text) ==
    /\ isProductModalOpen
    /\ editingProduct' = [editingProduct EXCEPT !.name_ru = text]
    /\ UNCHANGED <<products, isProductModalOpen, genVars, descFor, clock,
                   outsideDraft>>

\* onChange of a description textarea
EditDescription(lang, text) ==
    /\ isProductModalOpen
    /\ description' = [description EXCEPT ![lang] = text]
    /\ UNCHANGED <<products, editingProduct, isProductModalOpen, isGenerating,
                   descInFlight, descRequests, descCalls, lastReturn, descFor,
                   clock, outsideDraft>>

\* handleGenerateDescription(targetLang) of the open draft, up to the await
DraftGenerate(targetLang) ==
    /\ isProductModalOpen
    /\ ~isGenerating
    /\ descRequests < MaxRequests
    /\ IF editingProduct.name_ru # <<>> \/ editingProduct.name_uk # <<>>
       THEN /\ isGenerating' = TRUE
            /\ descInFlight' = targetLang
            /\ descRequests' = descRequests + 1
            /\ descCalls' = descCalls + 1
            /\ descFor' = editingProduct.id
       ELSE UNCHANGED <<isGenerating, descInFlight, descRequests, descCalls,
                        descFor>>
    /\ UNCHANGED <<products, editingProduct, isProductModalOpen, description,
                   lastReturn, clock, outsideDraft>>

\* the rest of handleGenerateDescription after the await:
\* setEditingProduct(prev => ({...prev, [description of targetLang]: desc}))
DraftDescriptionSettles(outcome) ==
    /\ descInFlight # "none"
    /\ LET result == generateProductDescription(outcome)
       IN  /\ lastReturn' = [op |-> "generateProductDescription",
                             outcome |-> outcome,
                             thrown |-> result.thrown, value |-> result.value]
           /\ IF result.thrown
              THEN UNCHANGED <<description, isGenerating>>
              ELSE /\ description' =
                        [description EXCEPT ![descInFlight] = result.value]
                   /\ isGenerating' = FALSE
    /\ descInFlight' = "none"
    /\ UNCHANGED <<products, editingProduct, isProductModalOpen, descRequests,
                   descCalls, descFor, clock, outsideDraft>>

\* useState of the product dialog
DraftInit ==
    /\ editingProduct = [id |-> NoId, name_ru |-> <<>>, name_uk |-> <<>>]
    /\ isProductModalOpen = FALSE
    /\ descFor = NoId

---------------------------------------------------------------------------
(* App.tsx: the orders, the navigation and the selected order *)

Views ==
    {"dashboard", "products", "warehouse", "orders", "directories",
     "settlements", "settings"}

\* the orders the application starts with
InitialOrders == << [id |-> 1, data |-> 0] >>

\* the order detail view is rendered
DetailShown == currentView = "orders" /\ selectedOrderId # NoId

\* the order list is rendered
ListShown == currentView = "orders" /\ selectedOrderId = NoId

\* handleNavClick(view): a button of the side bar
NavClick(view) ==
    /\ currentView' = view
    /\ selectedOrderId' = NoId
    /\ UNCHANGED <<orders, clock, outsideApp>>

\* the mutant of SelectedAfterDelete that keeps the selection
SelectedKept(selected, id) == selected

\* if (selectedOrderId === id) setSelectedOrderId(null)
SelectedAfterDelete(selected, id) == IF selected = id THEN NoId ELSE selected

\* handleDeleteOrder(id). App passes it to OrderList; the model lets it be
\* called for any order in any view
DeleteOrder(id) ==
    /\ id \in IdsOf(orders)
    /\ orders' = handleDeleteOrder(orders, id)
    /\ selectedOrderId' = SelectedAfterDelete(selectedOrderId, id)
    /\ UNCHANGED <<currentView, clock, outsideApp>>

\* handleCreateOrder, the button of the order list; newId is Date.now(), a
\* value not below the last one, and the same when the millisecond has not
\* passed
CreateOrder(newId) ==
    /\ ListShown
    /\ Len(orders) < MaxOrders
    /\ newId \in {clock, clock + 1}
    /\ newId <= MaxId
    /\ clock' = newId
    /\ orders' = <<[id |-> newId, data |-> 0]>> \o orders
    /\ currentView' = "orders"
    /\ selectedOrderId' = newId
    /\ UNCHANGED outsideApp

\* onSelectOrder(order.id): a click on a row of the order list
SelectOrder(id) ==
    /\ ListShown
    /\ id \in IdsOf(orders)
    /\ selectedOrderId' = id
    /\ UNCHANGED <<orders, currentView, clock, outsideApp>>

\* onBack of the detail view
BackToOrders ==
    /\ DetailShown
    /\ selectedOrderId' = NoId
    /\ UNCHANGED <<orders, currentView, clock, outsideApp>>

\* onUpdate of the detail view with the edited copy of the selected order
UpdateOrder(data) ==
    /\ DetailShown
    /\ orders' = handleUpdateOrder(orders, [id |-> selectedOrderId, data |-> data])
    /\ UNCHANGED <<currentView, selectedOrderId, clock, outsideApp>>

\* useState of App
AppInit ==
    /\ orders = InitialOrders
    /\ currentView = "dashboard"
    /\ selectedOrderId = NoId

---------------------------------------------------------------------------
(* Settings.tsx: the bank commission *)

BankCommissionInputs == { <<>>, <<"2", ".", "5">> }

\* onChange of the input: handleChange('bankCommission', parseFloat(text) || 0)
BankCommissionChange(text) ==
    /\ settings' = [settings EXCEPT !.bankCommission = OrZero(ParseFloat(text))]
    /\ UNCHANGED <<appSettings, outsideSettings>>

\* handleSave: onUpdateSettings(settings)
SaveSettings ==
    /\ appSettings' = settings
    /\ UNCHANGED <<settings, outsideSettings>>

\* useState of App (bankCommission: 1.5) and of Settings
SettingsInit ==
    /\ appSettings = [bankCommission |-> [n |-> 3, d |-> 2]]
    /\ settings = appSettings

\* the components outside the Warehouse and the Dashboard, as constructed
ComponentsInit ==
    /\ GenInit /\ OrderInit /\ ImportInit /\ SettingsInit
    /\ DirectoriesInit /\ ReceiptsInit

OtherInit ==
    ComponentsInit /\ CollectionsIdle /\ DiffInit /\ DraftInit /\ AppInit

---------------------------------------------------------------------------
(* Specifications *)

\* the Dashboard as it is while the Warehouse view is used
DashboardIdle ==
    /\ period = "month"
    /\ now = [day |-> FirstDay, ms |-> 0]
    /\ ranges = getDateRanges("month", now)

\* the receipt dialog of the Warehouse view
Init == WarehouseInit /\ DashboardIdle /\ OtherInit

Next ==
    \/ \E pre \in ProductsOf(products) \cup {NoProduct} : OpenReceiptModal(pre)
    \/ \E p \in ProductsOf(products) : SelectProduct(p)
    \/ \E text \in QtyInputs : SetReceiveQty(text)
    \/ \E text \in PriceInputs : SetPurchasePrice(text)
    \/ \E text \in ExtraInputs : SetGlobalExtraCosts(text)
    \/ AddToReceiptList
    \/ \E index \in 1..MaxLines : RemoveFromList(index)
    \/ CloseReceiptModal

Spec == Init /\ [][Next]_vars

\* the Dashboard view
InitDashboard == WarehouseInit /\ DashboardInit /\ OtherInit

NextDashboard ==
    \/ \E p \in Periods, n \in NowValues : SetPeriod(p, n)
    \/ \E n \in NowValues : RemountDashboard(n)

SpecDashboard == InitDashboard /\ [][NextDashboard]_vars

\* the text generation of the order editor and of the product editor
InitGen == WarehouseInit /\ DashboardIdle /\ OtherInit

NextGen ==
    \/ GetAdvice
    \/ \E outcome \in Outcomes : AdviceSettles(outcome)
    \/ \E targetLang \in {"ru", "uk"}, hasName \in BOOLEAN :
          GenerateDescription(targetLang, hasName)
    \/ \E outcome \in Outcomes : DescriptionSettles(outcome)

SpecGen == InitGen /\ [][NextGen]_vars

\* every promise of the external call settles, and the event loop then runs the
\* rest of the handler that awaits it
SpecGenLive ==
    /\ SpecGen
    /\ WF_vars(\E outcome \in Outcomes : AdviceSettles(outcome))
    /\ WF_vars(\E outcome \in Outcomes : DescriptionSettles(outcome))

\* the items and the total of the order editor
InitOrder == WarehouseInit /\ DashboardIdle /\ OtherInit

NextOrder ==
    \/ TotalEffect
    \/ SaveOrder
    \/ \E index \in 1..MaxItems, text \in ItemQtyInputs :
          ItemChange(index, "quantity", text)
    \/ \E index \in 1..MaxItems, text \in ItemDiscountInputs :
          ItemChange(index, "discount", text)
    \/ \E index \in 1..MaxItems : DeleteItem(index)
    \/ \E product \in OrderProducts : SelectProductToAdd(product)

SpecOrder == InitOrder /\ [][NextOrder]_vars

\* the step that runs the pending effect: TotalEffect is the one action that
\* clears totalEffectPending, and it can be taken whenever the flag is set
EffectRuns == totalEffectPending /\ totalEffectPending' = FALSE

\* React runs the effect it has scheduled
SpecOrderLive == SpecOrder /\ WF_totalEffectPending(EffectRuns)

\* the two components that start timers: the order editor with its shipping
\* cost, and the import dialog
InitTimers == WarehouseInit /\ DashboardIdle /\ OtherInit

NextTimers ==
    \/ TotalEffect
    \/ \E value \in ShippingInputs : ShippingCostChange(value)
    \/ SaveOrder
    \/ GenerateTTN
    \/ FetchShippingCost
    \/ \E mockCost \in MockCosts : ShippingTimerFires(mockCost)
    \/ \E index \in 1..MaxItems : DeleteItem(index)
    \/ \E product \in OrderProducts : SelectProductToAdd(product)
    \/ OpenImport
    \/ CloseImport
    \/ FileSelect
    \/ FileTimerFires
    \/ ImportBack

SpecTimers == InitTimers /\ [][NextTimers]_vars

\* the numeric inputs: the receipt dialog, the shipping cost of the order
\* editor, the bank commission of the settings
InitForms == WarehouseInit /\ DashboardIdle /\ OtherInit

NextForms ==
    \/ \E pre \in ProductsOf(products) \cup {NoProduct} : OpenReceiptModal(pre)
    \/ \E p \in ProductsOf(products) : SelectProduct(p)
    \/ \E text \in FormQtyInputs : SetReceiveQty(text)
    \/ \E text \in FormPriceInputs : SetPurchasePrice(text)
    \/ \E text \in FormExtraInputs : SetGlobalExtraCosts(text)
    \/ AddToReceiptList
    \/ \E index \in 1..MaxLines : RemoveFromList(index)
    \/ TotalEffect
    \/ \E value \in ShippingInputs : ShippingCostChange(value)
    \/ \E text \in BankCommissionInputs : BankCommissionChange(text)
    \/ SaveSettings

SpecForms == InitForms /\ [][NextForms]_vars

\* the categories of the Directories view
InitDirectories == WarehouseInit /\ DashboardIdle /\ OtherInit

NextDirectories ==
    \/ \E item \in ProductsOf(categories) \cup {NewItem} :
          OpenCategoryModal(item)
    \/ \E parentId \in 0..MaxId : SetParent(parentId)
    \/ SaveCategory
    \/ CloseCategoryModal
    \/ \E id \in IdsOf(categories) : DeleteCategory(id)

SpecDirectories == InitDirectories /\ [][NextDirectories]_vars

\* receiving a batch for two products
InitFinalize ==
    /\ products = StockedProducts
    /\ DialogInit /\ DashboardIdle /\ OtherInit

NextFinalize ==
    \/ OpenReceiptModal(NoProduct)
    \/ \E p \in ProductsOf(products) : SelectProduct(p)
    \/ \E text \in BatchQtyInputs : SetReceiveQty(text)
    \/ \E text \in BatchPriceInputs : SetPurchasePrice(text)
    \/ \E text \in BatchExtraInputs : SetGlobalExtraCosts(text)
    \/ \E text \in SupplierInputs : SetReceiptSupplier(text)
    \/ AddToReceiptList
    \/ FinalizeReceipt

SpecFinalize == InitFinalize /\ [][NextFinalize]_vars

\* the receipts of the settlements view
InitSettlements == WarehouseInit /\ DashboardIdle /\ OtherInit

NextSettlements ==
    \/ \E totalAmount \in ReceiptTotals : CreateReceipt(totalAmount)
    \/ \E id \in 1..MaxId : MarkReceiptPaid(id)
    \/ \E id \in 1..MaxId : DeleteReceipt(id)

SpecSettlements == InitSettlements /\ [][NextSettlements]_vars

\* the update and delete handlers of App on any list
InitCollections ==
    /\ WarehouseInit /\ DashboardIdle /\ ComponentsInit
    /\ CollectionsInit /\ DiffInit /\ DraftInit /\ AppInit

NextCollections ==
    \/ \E updated \in [id : 1..(MaxRecordId + 1), data : 0..1] :
           UpdateRecord(updated)
    \/ \E id \in 1..(MaxRecordId + 1) : MarkPaidRecord(id)
    \/ \E id \in 1..(MaxRecordId + 1) : DeleteRecord(id)

SpecCollections == InitCollections /\ [][NextCollections]_vars

\* finalizing any batch of the dialog
InitBatch == BatchInit /\ DashboardIdle /\ OtherInit

NextBatch ==
    \/ OpenReceiptModal(NoProduct)
    \/ \E text \in BatchExtraInputs : SetGlobalExtraCosts(text)
    \/ \E text \in {EmptyText} \cup SupplierInputs : SetReceiptSupplier(text)
    \/ FinalizeReceipt

SpecBatch == InitBatch /\ [][NextBatch]_vars

\* the import of products, on the product list of the Products view
InitImport ==
    /\ products = CatalogProducts
    /\ DialogInit /\ DashboardIdle /\ OtherInit

NextImport ==
    \/ OpenImport
    \/ CloseImport
    \/ FileSelect
    \/ FileTimerFires
    \/ ImportBack
    \/ AnalyzeImport
    \/ ImportBackToMapping
    \/ \E index \in 1..Len(mockParsedData) : ToggleDiffSelection(index)
    \/ ExecuteImport
    \/ \E id \in IdsOf(products) : DeleteCatalogProduct(id)

SpecImport == InitImport /\ [][NextImport]_vars

\* the product dialog of the Products view, short of its save button
InitDraft ==
    /\ products = DescribedProducts
    /\ DialogInit /\ DashboardIdle /\ OtherInit

NextDraft ==
    \/ \E product \in ProductsOf(products) : EditProduct(product)
    \/ AddNewProduct
    \/ CancelProduct
    \/ \E text \in NameInputs : EditName(text)
    \/ \E lang \in {"ru", "uk"}, text \in DescriptionInputs :
           EditDescription(lang, text)
    \/ \E targetLang \in {"ru", "uk"} : DraftGenerate(targetLang)
    \/ \E outcome \in Outcomes : DraftDescriptionSettles(outcome)

SpecDraft == InitDraft /\ [][NextDraft]_vars

\* the orders and the navigation of App
InitApp == WarehouseInit /\ DashboardIdle /\ OtherInit

NextApp ==
    \/ \E view \in Views : NavClick(view)
    \/ \E newId \in 1..MaxId : CreateOrder(newId)
    \/ \E id \in 1..MaxId : SelectOrder(id)
    \/ \E id \in 1..MaxId : DeleteOrder(id)
    \/ BackToOrders
    \/ \E data \in 0..1 : UpdateOrder(data)

SpecApp == InitApp /\ [][NextApp]_vars

---------------------------------------------------------------------------
(* The landed-cost calculator on the current receipt list *)

Lines == 1..Len(receiptItems)

\* what the useMemo returns in the current state
Calc == Calculator(receiptItems, globalExtraCosts)

CurTotal == TotalSupplier(receiptItems)

CurExtra == ExtraCost(globalExtraCosts)

\* each line's supplier value and allocated extra cost
LineTotals == [i \in Lines |-> ItemSupplierTotal(receiptItems[i])]

AllocatedOf(total, extra) ==
    [i \in Lines |-> AllocatedExtra(receiptItems[i], total, extra)]

\* landedUnitCost x quantity of each line of the calculator's result
UnitTimesQty(calc) ==
    [i \in Lines |->
        RMul(calc.calculatedItems[i].landedUnitCost, receiptItems[i].qty)]

\* the batches of claim C1: quantities > 0, unit prices >= 0, extra cost >= 0
NonNegativeBatch(extra) ==
    /\ \A i \in Lines : /\ RGt(receiptItems[i].qty, Zero)
                        /\ RLe(Zero, receiptItems[i].supplierUnitPrice)
    /\ RLe(Zero, extra)

\* C1 as stated: for every batch (of at least one line) with quantities > 0,
\* unit prices >= 0 and extra cost >= 0, the allocated extra costs of the lines
\* sum to the extra cost.
C1_AllocatedSumsToExtra_EveryBatch ==
    LET total == CurTotal
        extra == CurExtra
    IN  (Len(receiptItems) >= 1 /\ NonNegativeBatch(extra))
            => Sum(AllocatedOf(total, extra)) = extra

\* C1 (amended): for every such batch whose total supplier value is positive,
\* the allocated extra costs of the lines sum to the input extra cost; for a
\* batch whose total supplier value is zero they sum to zero.
C1_AllocatedSumsToExtra ==
    LET total == CurTotal
        extra == CurExtra
        sum == Sum(AllocatedOf(total, extra))
    IN  NonNegativeBatch(extra) =>
            /\ RGt(total, Zero) => sum = extra
            /\ total = Zero => sum = Zero

C1_Witness ==
    LET total == CurTotal
        extra == CurExtra
        lineTotals == LineTotals
    IN  /\ Len(receiptItems) = 2
        /\ NonNegativeBatch(extra)
        /\ RGt(extra, Zero)
        /\ RGt(lineTotals[1], Zero)
        /\ RGt(lineTotals[2], Zero)
        /\ Sum(AllocatedOf(total, extra)) = extra

ZeroValueBatch ==
    /\ Len(receiptItems) >= 1
    /\ \A i \in Lines : receiptItems[i].supplierUnitPrice = Zero

\* C3: in a batch whose every line has supplier unit price 0 nothing is divided
\* by the zero total: each line's ratio and allocated extra are zero and each
\* landed unit cost is a finite number, whatever the extra cost.
C3_ZeroTotalAllocatesZero ==
    ZeroValueBatch =>
        LET calc == Calc
            total == CurTotal
            allocated == AllocatedOf(total, CurExtra)
        IN  /\ total = Zero
            /\ \A i \in Lines :
                  /\ Ratio(receiptItems[i], total) = Zero
                  /\ allocated[i] = Zero
                  /\ IsFinite(calc.calculatedItems[i].landedUnitCost)
                  /\ IsFinite(calc.calculatedItems[i].landedTotalCost)
            /\ IsFinite(calc.totalLandedValue)

C3_Witness ==
    /\ ZeroValueBatch
    /\ Len(receiptItems) = 2
    /\ CurExtra = IntR(30)
    /\ Calc.calculatedItems[2].landedUnitCost = Zero

\* the batch of the spec's example: (qty 10, price 5), (qty 5, price 10), extra 30
ExampleBatch ==
    /\ Len(receiptItems) = 2
    /\ receiptItems[1].qty = IntR(10)
    /\ receiptItems[1].supplierUnitPrice = IntR(5)
    /\ receiptItems[2].qty = IntR(5)
    /\ receiptItems[2].supplierUnitPrice = IntR(10)
    /\ CurExtra = IntR(30)

\* C4 as stated: for the example batch the total supplier value is 100, line 1
\* is allocated 20 (landed unit cost 7.0) and line 2 is allocated 10 (landed
\* unit cost 12.0).
C4_Example_AsStated ==
    ExampleBatch =>
        LET calc == Calc
            allocated == AllocatedOf(CurTotal, CurExtra)
        IN  /\ calc.totalSupplierValue = IntR(100)
            /\ allocated[1] = IntR(20)
            /\ calc.calculatedItems[1].landedUnitCost = IntR(7)
            /\ allocated[2] = IntR(10)
            /\ calc.calculatedItems[2].landedUnitCost = IntR(12)

\* C4 (amended): for the example batch the total supplier value is 100, both
\* lines have supplier value 50 and are allocated 15 each; the landed unit cost
\* is 6.5 for line 1 and 13.0 for line 2.
C4_Example ==
    ExampleBatch =>
        LET calc == Calc
            allocated == AllocatedOf(CurTotal, CurExtra)
        IN  /\ calc.totalSupplierValue = IntR(100)
            /\ allocated[1] = IntR(15)
            /\ calc.calculatedItems[1].landedUnitCost = [n |-> 13, d |-> 2]
            /\ allocated[2] = IntR(15)
            /\ calc.calculatedItems[2].landedUnitCost = IntR(13)

C4_Witness == ExampleBatch /\ Calc.totalLandedValue = IntR(130)

\* each line's allocated extra is its share of the supplier value, and its
\* landed unit cost times its quantity is its supplier value plus that share
Proportional(total) ==
    LET extra == CurExtra
    IN  \A i \in Lines :
            LET item == receiptItems[i]
                lineTotal == ItemSupplierTotal(item)
                allocated == AllocatedExtra(item, total, extra)
            IN  /\ RMul(allocated, total) = RMul(extra, lineTotal)
                /\ RMul(LandedUnit(item, total, extra), item.qty)
                     = RAdd(lineTotal, allocated)

\* C5: for every line of every batch with non-zero total supplier value,
\* allocatedExtra x total = extraCost x lineSupplierTotal and
\* landedUnitCost x quantity = lineSupplierTotal + allocatedExtra.
C5_Proportional_NonZeroTotal ==
    LET total == CurTotal
    IN  total # Zero => Proportional(total)

\* C6: adding a line with a non-positive quantity is rejected, the receipt list
\* and the line-entry inputs stay as they are, and so every line of the receipt
\* list has a quantity >= 1 in every reachable state.
C6_NonPositiveQuantityRejected ==
    /\ [](\A i \in Lines : RLe(IntR(1), receiptItems[i].qty))
    /\ [][(AddToReceiptList /\ RLe(ParseInt(receiveQty), Zero))
            => UNCHANGED <<receiptItems, receiptProduct, receiveQty,
                           purchasePrice>>]_vars

C6_Witness ==
    /\ addOutcome = "rejected"
    /\ RLe(ParseInt(receiveQty), Zero)
    /\ ~IsNaN(ParseFloat(purchasePrice))
    /\ Len(receiptItems) = 1

---------------------------------------------------------------------------
(* The period comparator on the current ranges *)

\* the length of [a, b] as whole days and milliseconds
Length(a, b) ==
    LET dms == b.ms - a.ms
    IN  [days |-> (b.day - a.day) + dms \div MsPerDay, ms |-> dms % MsPerDay]

\* date d is counted in the current / in the prior range
InCurrent(d) == CheckDate(d, ranges.start, ranges.end)
InPrevious(d) == CheckDate(d, ranges.prevStart, ranges.prevEnd)

\* C7: for period "today" the current range holds the instants of exactly one
\* calendar day, the day of now, and the prior range those of exactly the
\* calendar day before it.
C7_TodaySpansOneCalendarDay ==
    period = "today" =>
        /\ ranges.start = [day |-> now.day, ms |-> 0]
        /\ ranges.prevStart = [day |-> now.day - 1, ms |-> 0]
        /\ \A d \in OrderDates \cup {now} :
              /\ InCurrent(d) <=> d.day = now.day
              /\ InPrevious(d) <=> d.day = now.day - 1

C9_PriorImmediatelyPrecedes ==
    /\ DateLt(ranges.prevEnd, ranges.start)
    /\ ranges.start.day - ranges.prevEnd.day <= 1
    /\ \A d \in OrderDates : ~(InCurrent(d) /\ InPrevious(d))

\* the Monday of the week (Monday to Sunday) that holds date d
MondayOf(d) == d.day - ((GetDay(d) + 6) % 7)

\* C10: for "week" and "last_week" and every weekday of now the start is a
\* Monday at 00:00 and the end is the Sunday that follows; for "week" the range
\* holds now, for "last_week" it is the seven days before this week's Monday.
C10_WeekIsMondayToSunday ==
    period \in {"week", "last_week"} =>
        /\ GetDay(ranges.start) = 1
        /\ ranges.start.ms = 0
        /\ ranges.end.day = ranges.start.day + 6
        /\ GetDay(ranges.end) = 0
        /\ period = "week" => InCurrent(now)
        /\ period = "last_week" => ranges.start.day = MondayOf(now) - 7

\* C11: the bucket granularity is hourly exactly for the single-day periods
\* today and tomorrow, and daily for every other period.
C11_HourlyExactlyForSingleDay ==
    /\ ranges.groupBy \in {"hour", "day"}
    /\ ranges.groupBy = "hour" <=> period \in {"today", "tomorrow"}

C11_Witness ==
    /\ period = "tomorrow"
    /\ ranges.groupBy = "hour"
    /\ ranges.start.day = now.day + 1

---------------------------------------------------------------------------
(* The text generation *)

\* the three operations
Operation(op, outcome) ==
    CASE op = "generateProductDescription" -> generateProductDescription(outcome)
      [] op = "analyzeSalesData" -> analyzeSalesData(outcome)
      [] op = "getShippingAdvice" -> getShippingAdvice(outcome)

\* C12: every text-generation operation returns a value on every path; when
\* the external call fails it returns its fixed fallback string and the failure
\* does not reach its caller.
C12_FailureReturnsFallback ==
    /\ \A op \in {"generateProductDescription", "analyzeSalesData",
                  "getShippingAdvice"}, outcome \in Outcomes :
          LET result == Operation(op, outcome)
          IN  /\ ~result.thrown
              /\ result.value # <<>>
              /\ ~outcome.ok => result.value = ErrorTextOf(op)
    /\ lastReturn.op # "none" =>
          /\ ~lastReturn.thrown
          /\ ~lastReturn.outcome.ok => lastReturn.value = ErrorTextOf(lastReturn.op)

C12_Witness ==
    /\ lastReturn.op = "getShippingAdvice"
    /\ ~lastReturn.outcome.ok
    /\ ~lastReturn.thrown
    /\ packagingAdvice = AdviceErrorText

\* C14: a text-generation request sets the loading flag, which is true exactly
\* while the request is not answered; one call is made for each request; and
\* the flag returns to false, whether the call succeeds or fails.
C14_LoadingFlagFollowsRequest ==
    /\ [](loadingAdvice <=> adviceInFlight)
    /\ [](isGenerating <=> descInFlight # "none")
    /\ [](adviceCalls = adviceRequests /\ descCalls = descRequests)
    /\ (loadingAdvice ~> ~loadingAdvice)
    /\ (isGenerating ~> ~isGenerating)

C14_Witness ==
    /\ descRequests = 2
    /\ descCalls = 2
    /\ ~isGenerating
    /\ lastReturn.op = "generateProductDescription"
    /\ ~lastReturn.outcome.ok
    /\ description.uk = DescriptionErrorText
    /\ description.ru = <<"Medium box">>


---------------------------------------------------------------------------
(* The order editor *)

RECURSIVE ExpectedTotal(_)
\* the sum, over the items, of (price - discount) * quantity
ExpectedTotal(items) ==
    IF items = <<>> THEN Zero
    ELSE RAdd(RMul(RAdd(Head(items).price, RMul(IntR(-1), Head(items).discount)),
                   Head(items).quantity),
              ExpectedTotal(Tail(items)))

\* C19: after any additions, deletions and quantity or discount edits of the
\* items, the effect eventually makes the order's total the sum of
\* (price - discount) * quantity over the items; whenever no effect is pending
\* the total is that sum; and the order Save hands to the application carries
\* the sum of its own items as its total.
C19_TotalRecomputedAndSaved ==
    /\ totalEffectPending
         ~> (~totalEffectPending
             /\ currentOrder.total = ExpectedTotal(currentOrder.items))
    /\ [](~totalEffectPending
            => currentOrder.total = ExpectedTotal(currentOrder.items))
    /\ [][savedOrder' # savedOrder
            => /\ savedOrder' = currentOrder
               /\ savedOrder'.total = ExpectedTotal(savedOrder'.items)]_vars

\* an order of two items, one of them with quantity 3 and discount 20, was
\* saved with the total (100 - 20) * 3 + 100 * 1
C19_Witness ==
    /\ Len(savedOrder.items) = 2
    /\ \E i \in 1..2 : /\ savedOrder.items[i].discount = IntR(20)
                       /\ savedOrder.items[i].quantity = IntR(3)
    /\ \E i \in 1..2 : /\ savedOrder.items[i].discount = Zero
                       /\ savedOrder.items[i].quantity = IntR(1)
    /\ savedOrder.total = IntR(340)


---------------------------------------------------------------------------
(* The numeric inputs *)

\* the numbers the receipt list, the order and the settings hold
NumbersInState ==
    { receiptItems[i].qty : i \in 1..Len(receiptItems) }
    \cup { receiptItems[i].supplierUnitPrice : i \in 1..Len(receiptItems) }
    \cup { receiptItems[i].supplierTotalCost : i \in 1..Len(receiptItems) }
    \cup { currentOrder.shippingCost[i] : i \in 1..Len(currentOrder.shippingCost) }
    \cup { settings.bankCommission, appSettings.bankCommission }

---------------------------------------------------------------------------
(* Background work *)

\* the state of the order editor and of the import dialog that a component or
\* the application reads
EditorState ==
    <<currentOrder, savedOrder, isFetchingShipping, isImportModalOpen,
      importStep, importFile, fileHeaders>>

\* C13 as stated: a step taken by a timer callback changes no state; every
\* change is made in the step of the user action.
C13_NoChangeByTimer ==
    [][actor' = "timer" => UNCHANGED EditorState]_vars

\* what the callback of the timer of handleFetchShippingCost may change
ShippingTimerShape ==
    /\ shippingTimer > 0 /\ shippingTimer' = shippingTimer - 1
    /\ \E cost \in 60..150 :
          currentOrder' = [currentOrder EXCEPT !.shippingCost = <<IntR(cost)>>]
    /\ ~isFetchingShipping'
    /\ UNCHANGED <<savedOrder, importVars>>

\* what the callback of the timer of handleFileSelect may change
FileTimerShape ==
    /\ importTimers > 0 /\ importTimers' = importTimers - 1
    /\ fileHeaders' /\ importStep' = 2
    /\ UNCHANGED <<isImportModalOpen, importFile, currentOrder, savedOrder,
                   isFetchingShipping, shippingTimer>>

\* C13, amended: a step is taken by a user action, by the effect React runs
\* for one, or by one of two timer callbacks; a step is a user action's
\* whenever no effect and no timer is pending; the shipping timer changes
\* only the shipping cost of the order being edited, to a value from 60 to
\* 150, and clears isFetchingShipping; the file timer changes only the file
\* headers and the import step, which it sets to 2.
C13_TimersChangeOnlyTheirFields ==
    [][/\ actor' \in {"user", "effect", "timer"}
       /\ (~totalEffectPending /\ shippingTimer = 0 /\ importTimers = 0)
            => actor' = "user"
       /\ actor' = "effect" => totalEffectPending /\ ~totalEffectPending'
       /\ actor' = "timer" => ShippingTimerShape \/ FileTimerShape]_vars

\* both timers have fired, the shipping timer last: the order has the
\* greatest mock cost and the import dialog is in step 2 with its headers
C13_Witness ==
    /\ actor = "timer"
    /\ currentOrder.shippingCost = <<IntR(150)>>
    /\ ~isFetchingShipping
    /\ shippingTimer = 0
    /\ fileHeaders
    /\ importStep = 2


---------------------------------------------------------------------------
(* The categories *)

RECURSIVE AncestorsFrom(_, _, _)
\* the ids met on the way up from a category with this parentId, over at most
\* `steps` parent references
AncestorsFrom(list, parentId, steps) ==
    IF parentId = NoId \/ steps = 0 THEN {}
    ELSE {parentId}
         \cup UNION {AncestorsFrom(list, c.parentId, steps - 1) :
                       c \in {x \in ProductsOf(list) : x.id = parentId}}

Ancestors(list, c) == AncestorsFrom(list, c.parentId, Len(list))

\* C16: the parent references of the categories form a forest: no category
\* is its own ancestor, and every parentId that is not null is the id of a
\* category of the list.
C16_CategoriesFormForest ==
    \A c \in ProductsOf(categories) :
        /\ c.id \notin Ancestors(categories, c)
        /\ c.parentId # NoId => c.parentId \in IdsOf(categories)


---------------------------------------------------------------------------
(* Finalizing a receipt batch *)

\* the lines of the batch are for distinct products
DistinctProducts(items) ==
    \A i, j \in 1..Len(items) : items[i].product.id = items[j].product.id => i = j

\* C17: finalizing a batch whose lines are for distinct products leaves every
\* product of a line with its stock raised by the line's quantity and its
\* purchase price the line's landed unit cost rounded to two decimals, and
\* every other product as it was.
C17_EveryLineReceived ==
    [][(FinalizeReceipt /\ DistinctProducts(receiptItems))
        => LET calc == Calculator(receiptItems, globalExtraCosts).calculatedItems
           IN  /\ Len(products') = Len(products)
               /\ \A k \in 1..Len(products) :
                    LET p == products[k]
                        on == {i \in 1..Len(calc) : calc[i].product.id = p.id}
                    IN  IF on = {}
                        THEN products'[k] = p
                        ELSE \A i \in on :
                               /\ products'[k].id = p.id
                               /\ products'[k].stock = p.stock + calc[i].qty.n
                               /\ products'[k].purchasePrice
                                    = ToFixed2(calc[i].landedUnitCost)]_vars


---------------------------------------------------------------------------
(* The receipts and what is owed *)

RECURSIVE OwedOn(_)
\* the sum of totalAmount over the receipts whose paid flag is false
OwedOn(list) ==
    IF list = <<>> THEN Zero
    ELSE IF Head(list).isPaid THEN OwedOn(Tail(list))
    ELSE RAdd(Head(list).totalAmount, OwedOn(Tail(list)))

---------------------------------------------------------------------------
(* The chart buckets *)

\* C18: every order of the current range is counted in exactly one chart
\* bucket and every order of the prior range in exactly one prior bucket, so
\* that the bucket sums are the totals over currentOrders and previousOrders.
C18_EachOrderInOneBucket ==
    LET r == ranges
    IN  \A d \in OrderDates :
          /\ CheckDate(d, r.start, r.end)
               => Cardinality(CurrentBuckets(r, d)) = 1
          /\ CheckDate(d, r.prevStart, r.prevEnd)
               => Cardinality(PreviousBuckets(r, d)) = 1


---------------------------------------------------------------------------
(* C21: update and delete by id *)

\* the positions of `before` a delete of lastOp.id keeps
KeptPositions == {i \in 1..Len(lastOp.before) : lastOp.before[i].id # lastOp.id}

\* what an update puts in the place of a record with the id
Replacement(old) ==
    IF lastOp.op = "paid" THEN [old EXCEPT !.isPaid = TRUE] ELSE lastOp.arg

\* C21: in each of the six lists an update by id replaces exactly the records
\* with that id and leaves every other record, the length and the order as
\* they were (nothing changes when no record has the id), and a delete by id
\* removes exactly the records with that id and leaves the others as they
\* were and in their order.
C21_UpdateAndDeleteById ==
    /\ lastOp.op \in {"update", "paid"} =>
           /\ Len(records) = Len(lastOp.before)
           /\ \A i \in 1..Len(records) :
                  records[i] = IF lastOp.before[i].id = lastOp.id
                               THEN Replacement(lastOp.before[i])
                               ELSE lastOp.before[i]
           /\ (lastOp.id \notin IdsOf(lastOp.before) => records = lastOp.before)
    /\ lastOp.op = "delete" =>
           /\ Len(records) = Cardinality(KeptPositions)
           /\ \A i \in KeptPositions :
                  records[Cardinality({j \in KeptPositions : j <= i})]
                      = lastOp.before[i]

\* a delete of an id two records of a list of suppliers have, a third record
\* staying
C21_Witness ==
    /\ collection = "suppliers"
    /\ lastOp.op = "delete"
    /\ Len(lastOp.before) = 3
    /\ Len(records) = 1

---------------------------------------------------------------------------
(* C22: the receipt of a finalized batch *)

---------------------------------------------------------------------------
(* C23: a product on several lines of a batch *)

\* the quantity the lines of a product add up to
QtyOnLines(items, id) ==
    Sum([i \in 1..Len(items) |->
           IF items[i].product.id = id THEN items[i].qty ELSE Zero])

\* C23: when a product is on two or more lines of a batch, finalizing the
\* batch adds the sum of the quantities of these lines to its stock.
C23_DuplicateLinesAddUp ==
    [][warehouseReceipts' # warehouseReceipts =>
          \A k \in 1..Len(products) :
              Cardinality({i \in 1..Len(receiptItems) :
                              receiptItems[i].product.id = products[k].id}) >= 2
              => IntR(products'[k].stock) =
                     RAdd(IntR(products[k].stock),
                          QtyOnLines(receiptItems, products[k].id))
    ]_vars

---------------------------------------------------------------------------
(* C24: the execution of an import *)

\* the step of handleExecuteImport
ImportExecuted ==
    isImportModalOpen /\ importStep = 3 /\ ~isImportModalOpen' /\ importStep' = 1

\* C24: executing an import applies every selected row and no other: every
\* selected 'update' row has replaced the product with its id, every selected
\* 'new' row is in the product list, and a row that is not selected has
\* changed nothing.
C24_SelectedRowsApplied ==
    [][ImportExecuted =>
          /\ \A i \in 1..Len(diffItems) :
                 LET item == diffItems[i]
                 IN  /\ (item.selected /\ item.type = "update") =>
                            \A k \in 1..Len(products) :
                                products[k].id = item.newProduct.id
                                => products'[k] = item.newProduct
                     /\ (item.selected /\ item.type = "new") =>
                            item.newProduct \in ProductsOf(products')
                     /\ (~item.selected /\ item.type = "new") =>
                            item.newProduct.id \notin
                                IdsOf(products') \ IdsOf(products)
          /\ (\A i \in 1..Len(diffItems) : ~diffItems[i].selected)
                 => products' = products
    ]_vars

---------------------------------------------------------------------------
(* C25: the description that arrives late *)

\* C25: the description the text generation returns is written into the
\* draft it was asked for only: when the answer arrives while the draft of
\* another product is in the dialog, no description of that draft changes;
\* and the answer leaves every other field of the draft as the user has it.
C25_DescriptionForItsDraftOnly ==
    [][(descInFlight # "none" /\ descInFlight' = "none") =>
          /\ editingProduct.id # descFor => description' = description
          /\ editingProduct' = editingProduct
          /\ \A lang \in {"ru", "uk"} \ {descInFlight} :
                 description'[lang] = description[lang]
    ]_vars

---------------------------------------------------------------------------
(* C26: the order of the detail view *)

\* C26: whenever the order detail view is shown, the orders hold an order
\* with the id selectedOrderId.
C26_SelectedOrderExists == DetailShown => selectedOrderId \in IdsOf(orders)

\* the detail view of an order while an older order has been deleted
C26_Witness ==
    /\ DetailShown
    /\ selectedOrderId \in IdsOf(orders)
    /\ 1 \notin IdsOf(orders)

---------------------------------------------------------------------------
(* C27: the ids of the records *)

\* C27: no two orders have the same id and no two receipts have the same id,
\* also when two of them are created in the same millisecond.
C27_IdsUnique ==
    /\ Cardinality(IdsOf(orders)) = Len(orders)
    /\ Cardinality(IdsOf(warehouseReceipts)) = Len(warehouseReceipts)

---------------------------------------------------------------------------
(* C29: the fetch of the shipping cost *)

---------------------------------------------------------------------------
(* C28: what the editor hands to App *)

\* C28: the items and the shipping cost of the stored order change only by
\* Save, a step that leaves the editor's order as it is and makes the stored
\* order equal to it; between two Saves the stored order does not change.
C28_OnlySaveStores ==
    [][(\/ savedOrder'.items # savedOrder.items
        \/ savedOrder'.shippingCost # savedOrder.shippingCost)
       => currentOrder' = currentOrder /\ savedOrder' = currentOrder]_vars

---------------------------------------------------------------------------
(* C30: the paid flag of a receipt *)

\* the receipts of a list with the id
WithId(list, id) == {r \in ProductsOf(list) : r.id = id}

\* C30: a receipt is unpaid when it is created, and a receipt that is paid is
\* paid in the next state unless it has been deleted; no step makes a paid
\* receipt unpaid.
C30_PaidStaysPaid ==
    [][/\ \A r \in ProductsOf(warehouseReceipts') :
              r.id \notin IdsOf(warehouseReceipts) => ~r.isPaid
       /\ \A r \in ProductsOf(warehouseReceipts) :
              r.isPaid => \A s \in WithId(warehouseReceipts', r.id) : s.isPaid
    ]_vars

\* a receipt paid before the other one was created and then paid too
C30_Witness ==
    /\ Len(warehouseReceipts) = 2
    /\ warehouseReceipts[1].isPaid
    /\ warehouseReceipts[2].isPaid
    /\ warehouseReceipts[1].totalAmount = Zero
====
